---- MODULE Spec2Model ----
(***************************************************************************)
(* Retrospective reachability search for Othello positions                 *)
(* (u-tokyo-gps-tanaka-lab/othello_complexity_rs).                         *)
(*                                                                         *)
(* A 64-bit bitboard is modelled as the set of its set bits, a subset of   *)
(* 0..63 (bit i = square y*8+x, i = 0 is the least significant bit).  The  *)
(* bit operations of the source are modelled on these sets: & is          *)
(* intersection, | is union, ^ is symmetric difference, << and >> move     *)
(* every element and drop what leaves 0..63.  A Board is the record        *)
(* [player, opponent] of two such sets.                                    *)
(***************************************************************************)
EXTENDS Integers, Naturals, Sequences, FiniteSets, TLC

\* ------------------------------------------------------------------------
\* 64-bit words as sets of bit positions
\* ------------------------------------------------------------------------
Squares == 0..63

Pow2(n) == IF n = 0 THEN 1 ELSE IF n = 1 THEN 2 ELSE IF n = 2 THEN 4
           ELSE IF n = 3 THEN 8 ELSE IF n = 4 THEN 16 ELSE IF n = 5 THEN 32
           ELSE IF n = 6 THEN 64 ELSE 128

\* The word whose eight bytes, most significant first as in a hex literal,
\* are bytes[1], ..., bytes[8].
U64(bytes) == { i \in Squares : ((bytes[8 - (i \div 8)] \div Pow2(i % 8)) % 2) = 1 }

Shl(S, k) == { i + k : i \in { j \in S : j + k <= 63 } }
Shr(S, k) == { i - k : i \in { j \in S : j - k >= 0 } }
Xor(A, B) == (A \ B) \cup (B \ A)

MaxOf(S) == CHOOSE m \in S : \A n \in S : n <= m
MinOf(S) == CHOOSE m \in S : \A n \in S : m <= n

\* a < b for two words, as unsigned integers: the highest differing bit is in b
WordLt(A, B) == LET D == Xor(A, B) IN D # {} /\ MaxOf(D) \in B

\* [u64; 2] compared lexicographically
PairLt(a, b) == \/ WordLt(a[1], b[1])
                \/ (a[1] = b[1] /\ WordLt(a[2], b[2]))

trailing_zeros(S) == MinOf(S)
count_ones(S) == Cardinality(S)

\* ------------------------------------------------------------------------
\* othello.rs : constants
\* ------------------------------------------------------------------------
DXYS == << <<1, 0>>, <<1, 1>>, <<0, 1>>, <<-1, 1>>,
           <<-1, 0>>, <<-1, -1>>, <<0, -1>>, <<1, -1>> >>

\* 0x0000_0018_1800_0000
CENTER_MASK == U64(<<0, 0, 0, 24, 24, 0, 0, 0>>)

Board(p, o) == [player |-> p, opponent |-> o]

\* Board::initial : 0x0000000810000000, 0x0000001008000000
initial == Board(U64(<<0, 0, 0, 8, 16, 0, 0, 0>>), U64(<<0, 0, 0, 16, 8, 0, 0, 0>>))

popcount(b) == count_ones(b.player) + count_ones(b.opponent)

\* ------------------------------------------------------------------------
\* othello.rs : symmetries and the canonical form
\* ------------------------------------------------------------------------
\* the delta-swap masks of transpose
transpose_masks ==
    << U64(<<0, 170, 0, 170, 0, 170, 0, 170>>),
       U64(<<0, 0, 204, 204, 0, 0, 204, 204>>),
       U64(<<0, 0, 0, 0, 240, 240, 240, 240>>) >>

\* one delta swap: t = (b ^ (b >> k)) & mask; b ^ t ^ (t << k)
delta_of(b, mask, k) == Xor(b, Shr(b, k)) \cap mask
delta_apply(b, t, k) == Xor(b, Xor(t, Shl(t, k)))
delta_swap(b, mask, k) == delta_apply(b, delta_of(b, mask, k), k)

transpose_none(b0) == b0
transpose(b0) ==
    delta_swap(delta_swap(delta_swap(b0, transpose_masks[1], 7),
                          transpose_masks[2], 14),
               transpose_masks[3], 28)

\* the byte-swap masks of vertical_mirror
vertical_masks ==
    << U64(<<0, 255, 0, 255, 0, 255, 0, 255>>),
       U64(<<255, 0, 255, 0, 255, 0, 255, 0>>),
       U64(<<0, 0, 255, 255, 0, 0, 255, 255>>),
       U64(<<255, 255, 0, 0, 255, 255, 0, 0>>),
       U64(<<0, 0, 0, 0, 255, 255, 255, 255>>),
       U64(<<255, 255, 255, 255, 0, 0, 0, 0>>) >>

\* ((b >> k) & lo) | ((b << k) & hi)
swap_halves(b, lo, hi, k) == (Shr(b, k) \cap lo) \cup (Shl(b, k) \cap hi)

vertical_mirror(b0) ==
    swap_halves(swap_halves(swap_halves(b0, vertical_masks[1], vertical_masks[2], 8),
                            vertical_masks[3], vertical_masks[4], 16),
                vertical_masks[5], vertical_masks[6], 32)

\* the bit-swap masks of horizontal_mirror
horizontal_masks ==
    << U64(<<85, 85, 85, 85, 85, 85, 85, 85>>),
       U64(<<170, 170, 170, 170, 170, 170, 170, 170>>),
       U64(<<51, 51, 51, 51, 51, 51, 51, 51>>),
       U64(<<204, 204, 204, 204, 204, 204, 204, 204>>),
       U64(<<15, 15, 15, 15, 15, 15, 15, 15>>),
       U64(<<240, 240, 240, 240, 240, 240, 240, 240>>) >>

horizontal_mirror(b0) ==
    swap_halves(swap_halves(swap_halves(b0, horizontal_masks[1], horizontal_masks[2], 1),
                            horizontal_masks[3], horizontal_masks[4], 2),
                horizontal_masks[5], horizontal_masks[6], 4)

\* board_check: TRUE when neither panic is raised
board_check(pair) ==
    /\ pair[1] \cap pair[2] = {}
    /\ (pair[1] \cup pair[2]) \cap CENTER_MASK = CENTER_MASK

\* Board::board_symmetry(s): the pair [player, opponent] after symmetry s
mirror_h(pair, s) ==
    IF s % 2 # 0 THEN <<horizontal_mirror(pair[1]), horizontal_mirror(pair[2])>> ELSE pair
mirror_v(pair, s) ==
    IF (s \div 2) % 2 # 0 THEN <<vertical_mirror(pair[1]), vertical_mirror(pair[2])>> ELSE pair
mirror_t(pair, s) ==
    IF (s \div 4) % 2 # 0 THEN <<transpose(pair[1]), transpose(pair[2])>> ELSE pair
board_symmetry(b, s) ==
    mirror_t(mirror_v(mirror_h(<<b.player, b.opponent>>, s), s), s)

RECURSIVE UniqueLoop(_, _, _)
PairMin(tmp, answer) == IF PairLt(tmp, answer) THEN tmp ELSE answer
UniqueLoop(b, i, answer) ==
    IF i > 7 THEN answer
    ELSE UniqueLoop(b, i + 1, PairMin(board_symmetry(b, i), answer))

\* Board::unique
unique(b) == UniqueLoop(b, 1, <<b.player, b.opponent>>)

\* ------------------------------------------------------------------------
\* othello.rs : move generation
\* ------------------------------------------------------------------------
not_a_file == U64(<<254, 254, 254, 254, 254, 254, 254, 254>>)
not_h_file == U64(<<127, 127, 127, 127, 127, 127, 127, 127>>)
not_rank_1 == U64(<<255, 255, 255, 255, 255, 255, 255, 0>>)
not_rank_8 == U64(<<0, 255, 255, 255, 255, 255, 255, 255>>)

east(x)  == Shl(x, 1) \cap not_a_file
west(x)  == Shr(x, 1) \cap not_h_file
north(x) == Shl(x, 8) \cap not_rank_1
south(x) == Shr(x, 8) \cap not_rank_8
ne(x)    == Shl(x, 9) \cap (not_a_file \cap not_rank_1)
nw(x)    == Shl(x, 7) \cap (not_h_file \cap not_rank_1)
se(x)    == Shr(x, 7) \cap (not_a_file \cap not_rank_8)
sw(x)    == Shr(x, 9) \cap (not_h_file \cap not_rank_8)

Steps == {"east", "west", "north", "south", "ne", "nw", "se", "sw"}
step(d, x) == CASE d = "east" -> east(x) [] d = "west" -> west(x)
                [] d = "north" -> north(x) [] d = "south" -> south(x)
                [] d = "ne" -> ne(x) [] d = "nw" -> nw(x)
                [] d = "se" -> se(x) [] d = "sw" -> sw(x)

RECURSIVE RayCollect(_, _, _, _)
RayCollect(x, flips, opponent, d) ==
    IF x # {} /\ (x \cap opponent) # {}
    THEN RayCollect(step(d, x), flips \cup x, opponent, d)
    ELSE <<x, flips>>

ray_flips(move_bb, player, opponent, d) ==
    LET r == RayCollect(step(d, move_bb), {}, opponent, d)
    IN  IF (r[1] \cap player) # {} THEN r[2] ELSE {}

flip(pos, player, opponent) ==
    IF ({pos} \cap (player \cup opponent)) # {} THEN {}
    ELSE UNION { ray_flips({pos}, player, opponent, d) : d \in Steps }

get_moves(player, opponent) ==
    { pos \in Squares : /\ ({pos} \cap (player \cup opponent)) = {}
                        /\ flip(pos, player, opponent) # {} }

\* ------------------------------------------------------------------------
\* search/search.rs : retrospective_flip
\* ------------------------------------------------------------------------
Min2(a, b) == IF a < b THEN a ELSE b

\* The `loop` of one direction block: the number of consecutive opponent
\* stones from pos in steps of delta, at most limit.
RECURSIVE RunLength(_, _, _, _, _)
RunLength(pos, opponent, delta, limit, length) ==
    LET next == pos + ((length + 1) * delta)
    IN  IF next < 0 \/ next > 63 THEN length
        ELSE IF next \in opponent
             THEN IF length + 1 = limit THEN length + 1
                  ELSE RunLength(pos, opponent, delta, limit, length + 1)
             ELSE length

\* add_direction_sets, first call (answer == 0): result[0] = 0, then the
\* cumulative ORs of the direction's bits
RECURSIVE AddFirst(_, _, _, _)
AddFirst(result, pos, delta, i) ==
    \* i counts the remaining bits of the direction, nearest first
    IF i = 0 THEN result
    ELSE LET k == Len(result)
         IN  AddFirst(Append(result, result[k] \cup {pos + (k * delta)}), pos, delta, i - 1)

\* add_direction_sets, later calls: every old element OR the growing prefix
RECURSIVE AddProduct(_, _, _, _, _, _)
AddProduct(result, old, pos, delta, i, length) ==
    IF i >= length THEN result
    ELSE LET direction == { pos + (k * delta) : k \in 1..i }
         IN  AddProduct(result \o [j \in 1..old |-> result[j] \cup direction],
                        old, pos, delta, i + 1, length)

add_direction_sets_whole(result, pos, delta, length) ==
    IF Len(result) = 0 THEN AddFirst(<< {} >>, pos, delta, length)
    ELSE AddProduct(result, Len(result), pos, delta, 1, length + 1)
add_direction_sets_again(result, pos, delta, length) ==
    IF Len(result) = 0 THEN AddFirst(<< {} >>, pos, delta, length - 1)
    ELSE AddProduct(result, Len(result), pos, delta, 0, length)
add_direction_sets(result, pos, delta, length) ==
    IF Len(result) = 0 THEN AddFirst(<< {} >>, pos, delta, length - 1)
    ELSE AddProduct(result, Len(result), pos, delta, 1, length)

\* The eight direction blocks in source order: guard, step, run limit
RetroDirs(pos) ==
    LET xpos == pos % 8
        ypos == pos \div 8
    IN  << [cond |-> ypos >= 2, delta |-> -8, limit |-> ypos],
           [cond |-> ypos < 6, delta |-> 8, limit |-> 7 - ypos],
           [cond |-> xpos >= 2, delta |-> -1, limit |-> xpos],
           [cond |-> xpos < 6, delta |-> 1, limit |-> 7 - xpos],
           [cond |-> xpos >= 2 /\ ypos >= 2, delta |-> -9, limit |-> Min2(xpos, ypos)],
           [cond |-> xpos < 6 /\ ypos < 6, delta |-> 9, limit |-> Min2(7 - xpos, 7 - ypos)],
           [cond |-> xpos < 6 /\ ypos >= 2, delta |-> -7, limit |-> Min2(7 - xpos, ypos)],
           [cond |-> xpos >= 2 /\ ypos < 6, delta |-> 7, limit |-> Min2(xpos, 7 - ypos)] >>

RECURSIVE RetroLoop(_, _, _, _)
RetroLoop(pos, opponent, k, result) ==
    IF k > 8 THEN result
    ELSE LET d == RetroDirs(pos)[k]
             length == IF d.cond THEN RunLength(pos, opponent, d.delta, d.limit, 0) ELSE 0
         IN  RetroLoop(pos, opponent, k + 1,
                       IF length >= 2 THEN add_direction_sets(result, pos, d.delta, length)
                       ELSE result)

\* retrospective_flip: the filled prefix of `result` as a sequence (its
\* length is the returned count; result[1] is the source's result[0]).
\* The player argument is unused by the source.
retrospective_flip(pos, player, opponent) == RetroLoop(pos, opponent, 1, << >>)

\* The predecessor built from a flip mask (search.rs 765-769)
PrevBoardKeepsSquare(board, index, flipped) ==
    Board(Xor(board.opponent, flipped), Xor(board.player, flipped))
PrevBoard(board, index, flipped) ==
    Board(Xor(board.opponent, flipped \cup {index}), Xor(board.player, flipped))

\* ------------------------------------------------------------------------
\* occupancy reachability (lib/check_occupancy.rs, prunings/occupancy.rs)
\* ------------------------------------------------------------------------
FILE_A == U64(<<1, 1, 1, 1, 1, 1, 1, 1>>)
FILE_H == U64(<<128, 128, 128, 128, 128, 128, 128, 128>>)

sh_n(b)  == Shl(b, 8)
sh_s(b)  == Shr(b, 8)
sh_e(b)  == Shl(b, 1) \ FILE_A
sh_w(b)  == Shr(b, 1) \ FILE_H
sh_ne(b) == Shl(b \ FILE_H, 9)
sh_nw(b) == Shl(b \ FILE_A, 7)
sh_se(b) == Shr(b \ FILE_H, 7)
sh_sw(b) == Shr(b \ FILE_A, 9)

Dirs == {"N", "S", "E", "W", "NE", "NW", "SE", "SW"}
backshift(d, b) == CASE d = "N" -> sh_s(b) [] d = "S" -> sh_n(b)
                     [] d = "E" -> sh_w(b) [] d = "W" -> sh_e(b)
                     [] d = "NE" -> sh_sw(b) [] d = "NW" -> sh_se(b)
                     [] d = "SE" -> sh_nw(b) [] d = "SW" -> sh_ne(b)

\* the inner while loop: extend through occupied squares until none is left
RECURSIVE ScanChain(_, _, _, _)
ScanChain(d, wk, r_d, occupied) ==
    IF wk = {} THEN r_d
    ELSE LET wk2 == backshift(d, wk) \cap occupied
         IN  ScanChain(d, wk2, r_d \cup wk2, occupied)

AddAll(t, occupied) ==
    UNION { LET w1 == backshift(d, t) \cap t
                wk == backshift(d, w1) \cap occupied
            IN  ScanChain(d, wk, wk, occupied) : d \in Dirs }

RECURSIVE ReachLoop(_, _, _)
ReachLoop(t, occupied, iter) ==
    IF iter >= 60 THEN t
    ELSE LET add == AddAll(t, occupied) \ t
         IN  IF add = {} THEN t
             ELSE IF (t \cup add) = occupied THEN t \cup add
             ELSE ReachLoop(t \cup add, occupied, iter + 1)

reachable_occupancy(occupied) == ReachLoop(CENTER_MASK, occupied, 0)

check_occupancy(occupied) ==
    IF (occupied \cap CENTER_MASK) # CENTER_MASK THEN FALSE
    ELSE reachable_occupancy(occupied) = occupied

\* occupancy_order: for each occupied square, what is explained without it,
\* plus the square itself (0 for an empty square)
occupancy_order(occupied) ==
    [sq \in Squares |-> IF sq \in occupied
                        THEN reachable_occupancy(occupied \ {sq}) \cup {sq}
                        ELSE {}]

\* ------------------------------------------------------------------------
\* search/search.rs : is_connected, check_seg3, check_seg3_more
\* ------------------------------------------------------------------------
\* the eight neighbour masks of is_connected
connect_masks ==
    << U64(<<254, 254, 254, 254, 254, 254, 254, 254>>),
       U64(<<127, 127, 127, 127, 127, 127, 127, 127>>),
       U64(<<255, 255, 255, 255, 255, 255, 255, 0>>),
       U64(<<0, 255, 255, 255, 255, 255, 255, 255>>),
       U64(<<127, 127, 127, 127, 127, 127, 127, 0>>),
       U64(<<0, 254, 254, 254, 254, 254, 254, 254>>),
       U64(<<254, 254, 254, 254, 254, 254, 254, 0>>),
       U64(<<0, 127, 127, 127, 127, 127, 127, 127>>) >>

RECURSIVE ConnLoop(_, _, _)
ConnLoop(b, mark, old_mark) ==
    IF mark = old_mark THEN mark
    ELSE LET new_mark ==
               mark
               \cup (b \cap Shr(mark \cap connect_masks[1], 1))
               \cup (b \cap Shl(mark \cap connect_masks[2], 1))
               \cup (b \cap Shr(mark \cap connect_masks[3], 8))
               \cup (b \cap Shl(mark \cap connect_masks[4], 8))
               \cup (b \cap Shr(mark \cap connect_masks[5], 7))
               \cup (b \cap Shl(mark \cap connect_masks[6], 7))
               \cup (b \cap Shr(mark \cap connect_masks[7], 9))
               \cup (b \cap Shl(mark \cap connect_masks[8], 9))
         IN  ConnLoop(b, new_mark, mark)

\* is_connected (the assert on the centre is the caller's obligation)
is_connected(b) == ConnLoop(b, CENTER_MASK, {}) = b

IsCenterXY(x, y) == 3 <= x /\ x <= 4 /\ 3 <= y /\ y <= 4

\* number of consecutive squares of `occ` from (x1, y1) in direction (dx, dy)
RECURSIVE LineLen(_, _, _, _, _)
LineLen(x1, y1, dx, dy, occ) ==
    IF 0 <= x1 /\ x1 < 8 /\ 0 <= y1 /\ y1 < 8 /\ ((y1 * 8) + x1) \in occ
    THEN 1 + LineLen(x1 + dx, y1 + dy, dx, dy, occ)
    ELSE 0

\* l of the source: the square itself plus the occupied run in direction d
RunLen(i, d, occ) ==
    1 + LineLen((i % 8) + DXYS[d][1], (i \div 8) + DXYS[d][2], DXYS[d][1], DXYS[d][2], occ)

DirOffset(d) == (DXYS[d][2] * 8) + DXYS[d][1]

\* no_cycle: Kahn's scan over the dependency graph g (g[i] the set of
\* squares i depends on); TRUE when every in-degree reaches 0
RECURSIVE KahnLoop(_, _, _)
KahnLoop(g, icount, q) ==
    IF q = << >> THEN icount
    ELSE LET i == q[Len(q)]
             rest == SubSeq(q, 1, Len(q) - 1)
             ic2 == [j \in Squares |-> IF j \in g[i] THEN icount[j] - 1 ELSE icount[j]]
             pushed == { j \in g[i] : ic2[j] = 0 }
             RECURSIVE PushAll(_, _)
             PushAll(qq, S) == IF S = {} THEN qq
                               ELSE PushAll(Append(qq, MinOf(S)), S \ {MinOf(S)})
         IN  KahnLoop(g, ic2, PushAll(rest, pushed))

no_cycle(g) ==
    LET icount == [j \in Squares |-> Cardinality({ i \in Squares : j \in g[i] })]
        start  == { i \in Squares : g[i] # {} /\ icount[i] = 0 }
        RECURSIVE Seed(_, _)
        Seed(qq, S) == IF S = {} THEN qq ELSE Seed(Append(qq, MinOf(S)), S \ {MinOf(S)})
        final == KahnLoop(g, icount, Seed(<< >>, start))
    IN  \A i \in Squares : ~(final[i] > 0)

check_seg3(b) ==
    LET oks(i) == { d \in 1..8 : RunLen(i, d, b) >= 3 }
        outer  == { i \in b : ~IsCenterXY(i % 8, i \div 8) }
        g == [i \in Squares |->
                IF i \in outer /\ Cardinality(oks(i)) = 1
                THEN LET d == CHOOSE d \in oks(i) : TRUE
                     IN  {i + DirOffset(d), i + (2 * DirOffset(d))}
                ELSE {}]
    IN  IF \E i \in outer : oks(i) = {} THEN FALSE ELSE no_cycle(g)

\* can_put_flip: per square the set of directions (0-based bit numbers of
\* the source's u8 masks) in canput and canflip
canput_of_long(occupied, order, i) ==
    IF i \notin occupied \/ IsCenterXY(i % 8, i \div 8) THEN {}
    ELSE LET o1 == occupied \cap order[i]
         IN  { d \in 0..7 : RunLen(i, d + 1, o1) >= 4 }
canput_of(occupied, order, i) ==
    IF i \notin occupied \/ IsCenterXY(i % 8, i \div 8) THEN {}
    ELSE LET o1 == occupied \cap order[i]
         IN  { d \in 0..7 : RunLen(i, d + 1, o1) >= 3 }

canflip_of(occupied, i) ==
    IF i \notin occupied THEN {}
    ELSE { d \in 0..3 : RunLen(i, d + 1, occupied) >= 2 /\ RunLen(i, d + 5, occupied) >= 2 }

\* One direction d of the `while mask != 0` loop: TRUE when ng_count grows
SegNg(p0, canflip, i, d) ==
    LET d1 == d % 4
        di == DirOffset(d + 1)
        a  == i + di
        b2 == i + (di * 2)
        first == /\ a \notin p0
                 /\ (canflip[a] = {} \/ canflip[a] \ {d1} = {})
        \* reached only when the first square did not break
        second == /\ b2 \notin p0
                  /\ \/ canflip[b2] = {}
                     \/ /\ canflip[b2] \ {d1} = {}
                        /\ a \in p0
                        /\ canflip[a] \ {d1} = {}
    IN  first \/ second

\* The verdict of one disc of colour p0: "panic", "false" or "skip"
SegSquare(p0, canput, canflip, i) ==
    IF canput[i] = {} THEN "panic"
    ELSE IF canflip[i] # {} THEN "skip"
    ELSE IF \A d \in canput[i] : SegNg(p0, canflip, i, d) THEN "false"
    ELSE "skip"

\* The scan `for i in 0..2 { for y { for x` : the verdict of the first disc,
\* in scan order (colour k, then square number), that ends the function
SegScan(ps, canput, canflip) ==
    LET ending(k) == { i \in ps[k] : /\ ~IsCenterXY(i % 8, i \div 8)
                                     /\ SegSquare(ps[k], canput, canflip, i) # "skip" }
    IN  IF ending(1) # {} THEN SegSquare(ps[1], canput, canflip, MinOf(ending(1)))
        ELSE IF ending(2) # {} THEN SegSquare(ps[2], canput, canflip, MinOf(ending(2)))
        ELSE "true"

\* check_seg3_more with its three outcomes: "true", "false", "panic"
seg3_more_outcome(player, opponent) ==
    LET occupied == player \cup opponent
        \* (f @@ << >> is f, held as an explicit table)
        order    == occupancy_order(occupied) @@ << >>
        canput   == [i \in Squares |-> canput_of(occupied, order, i)] @@ << >>
        canflip  == [i \in Squares |-> canflip_of(occupied, i)] @@ << >>
    IN  SegScan(<<player, opponent>>, canput, canflip)

check_seg3_more(player, opponent) == seg3_more_outcome(player, opponent) = "true"

\* ------------------------------------------------------------------------
\* search/search.rs : the forward search building the leaf set
\* ------------------------------------------------------------------------
\* `if board.popcount() >= discs as u32`
AtDepthLimitLate(count, discs) == count > discs
AtDepthLimit(count, discs) == count >= discs

RECURSIVE search(_, _, _)
RECURSIVE SearchMoves(_, _, _, _)
search(board, st, discs) ==
    LET uni == unique(board)
        swapped == Board(board.opponent, board.player)
    IN  IF AtDepthLimit(popcount(board), discs)
        THEN IF get_moves(board.player, board.opponent) # {}
             THEN [st EXCEPT !.leafnode = @ \cup {uni}]
             ELSE IF get_moves(board.opponent, board.player) # {}
                  THEN search(swapped, st, discs)
                  ELSE st
        ELSE IF uni \in st.searched THEN st
        ELSE LET st1 == [st EXCEPT !.searched = @ \cup {uni}]
                 moves == get_moves(board.player, board.opponent)
             IN  IF moves = {}
                 THEN IF get_moves(board.opponent, board.player) # {}
                      THEN search(swapped, st1, discs)
                      ELSE st1
                 ELSE SearchMoves(board, moves, st1, discs)

SearchMoves(board, moves, st, discs) ==
    IF moves = {} THEN st
    ELSE LET idx == trailing_zeros(moves)
             flipped == flip(idx, board.player, board.opponent)
             next == Board(Xor(board.opponent, flipped),
                           Xor(board.player, flipped \cup {idx}))
         IN  SearchMoves(board, moves \ {idx},
                         IF flipped = {} THEN st ELSE search(next, st, discs), discs)

\* LeafCache::new(discs).leaf
LeafCache(discs) == search(initial, [searched |-> {}, leafnode |-> {}], discs).leafnode

\* ------------------------------------------------------------------------
\* search/search.rs : Btable
\* ------------------------------------------------------------------------
\* a usize count as a word, for comparisons with sizes above the integer range
WordOf(n) == { i \in 0..30 : ((n \div (2 ^ i)) % 2) = 1 }

PairLe(a, b) == a = b \/ PairLt(a, b)

\* slice::binary_search on the table: TRUE for Ok(_)
RECURSIVE BinarySearch(_, _, _, _)
BinarySearch(tbl, key, left, right) ==
    IF left >= right THEN FALSE
    ELSE LET mid == left + ((right - left) \div 2)
         IN  IF tbl[mid + 1] = key THEN TRUE
             ELSE IF PairLt(tbl[mid + 1], key) THEN BinarySearch(tbl, key, mid + 1, right)
             ELSE BinarySearch(tbl, key, left, mid)

\* a faulty lookup that never finds a key of the sorted table
binary_search_blind(tbl, key) == FALSE

binary_search(tbl, key) == BinarySearch(tbl, key, 0, Len(tbl))

\* c2v after collect and sort
RECURSIVE SortedSeq(_)
SortedSeq(S) ==
    IF S = {} THEN << >>
    ELSE LET m == CHOOSE x \in S : \A y \in S : PairLe(x, y)
         IN  << m >> \o SortedSeq(S \ {m})

\* the backward merge `for k in (0..(i + j)).rev()`, on the resized table
\* (indices here are 1-based: tbl[k + 1] is the source's table[k])
RECURSIVE MergeLoopTableFirst(_, _, _, _, _)
MergeLoopTableFirst(tbl, c2v, i, j, k) ==
    IF k < 0 THEN tbl
    ELSE IF j = 0 \/ i > 0
         THEN MergeLoopTableFirst([tbl EXCEPT ![k + 1] = tbl[i]], c2v, i - 1, j, k - 1)
         ELSE MergeLoopTableFirst([tbl EXCEPT ![k + 1] = c2v[j]], c2v, i, j - 1, k - 1)
RECURSIVE MergeLoop(_, _, _, _, _)
MergeLoop(tbl, c2v, i, j, k) ==
    IF k < 0 THEN tbl
    ELSE IF j = 0 \/ (i > 0 /\ PairLe(c2v[j], tbl[i]))
         THEN MergeLoop([tbl EXCEPT ![k + 1] = tbl[i]], c2v, i - 1, j, k - 1)
         ELSE MergeLoop([tbl EXCEPT ![k + 1] = c2v[j]], c2v, i, j - 1, k - 1)

\* Btable::new
BtableNew(table_size, csize) ==
    [cache_size |-> csize, capacity |-> table_size, table |-> << >>, cache |-> {}]

\* Btable::clear (Vec::clear keeps the capacity)
BtableKept(bt) == bt
BtableClear(bt) == [bt EXCEPT !.table = << >>, !.cache = {}]

\* Btable::len
BtableLen(bt) == Cardinality(bt.cache) + Len(bt.table)

ZeroKey == << {}, {} >>

\* a faulty capacity test that never reports a full table
OverCapacityNever(bt, n) == FALSE

\* `self.table.len() + self.cache.len() > self.table.capacity()`, for the
\* sum n; the capacity is held as a word
OverCapacity(bt, n) == WordLt(bt.capacity, WordOf(n))

\* Btable::insert: the new table and the returned flag.  capacity is a word.
BtableInsert(bt, uni) ==
    IF uni \in bt.cache THEN [bt |-> bt, ret |-> FALSE]
    ELSE IF binary_search(bt.table, uni) THEN [bt |-> bt, ret |-> FALSE]
    ELSE LET cache1 == bt.cache \cup {uni}
         IN  IF Cardinality(cache1) >= bt.cache_size
             THEN IF OverCapacity(bt, Len(bt.table) + Cardinality(cache1))
                  THEN [bt |-> [bt EXCEPT !.cache = {}], ret |-> TRUE]
                  ELSE LET c2v == SortedSeq(cache1)
                           i == Len(bt.table)
                           j == Len(c2v)
                           resized == bt.table \o [n \in 1..j |-> ZeroKey]
                       IN  [bt |-> [bt EXCEPT !.cache = {},
                                               !.table = MergeLoop(resized, c2v, i, j, (i + j) - 1)],
                            ret |-> TRUE]
             ELSE [bt |-> [bt EXCEPT !.cache = cache1], ret |-> TRUE]

\* ------------------------------------------------------------------------
\* search/move_ordering.rs : features, h_function
\* ------------------------------------------------------------------------
Neighbours(index) ==
    { ((((index \div 8) + DXYS[d][2]) * 8) + (index % 8)) + DXYS[d][1] :
        d \in { e \in 1..8 : /\ 0 <= (index % 8) + DXYS[e][1]
                             /\ (index % 8) + DXYS[e][1] < 8
                             /\ 0 <= (index \div 8) + DXYS[e][2]
                             /\ (index \div 8) + DXYS[e][2] < 8 } }

RECURSIVE SumOver(_, _)
SumOver(S, f) == IF S = {} THEN 0
                 ELSE LET x == MinOf(S) IN f[x] + SumOver(S \ {x}, f)

\* the pairs counted for one colour: both stones of that colour, and the
\* neighbour above the current index
sm_edges(ps) ==
    SumOver(ps, [i \in Squares |-> Cardinality({ n \in Neighbours(i) : n \in ps /\ n > i })])

\* occupied neighbours, summed over the occupied squares
in_edges(occupied) ==
    SumOver(occupied, [i \in Squares |-> Cardinality(Neighbours(i) \cap occupied)])

FeatureTuple(in_edge, sm0, sm1) == << 0, in_edge, (sm0 + sm1) \div 2, Min2(sm0, sm1) \div 2 >>

\* (in_sq, in_edge, sm_edges_all, sm_edges_min)
features(b) ==
    FeatureTuple(in_edges(b.player \cup b.opponent), sm_edges(b.player), sm_edges(b.opponent))

\* sum of 1 / (f + 1) over the four features, times 2^exp, as a fraction
HFraction(a1, a2, a3, a4, e) ==
    [num |-> (a2 * a3 * a4) + (a1 * a3 * a4) + (a1 * a2 * a4) + (a1 * a2 * a3),
     den |-> a1 * a2 * a3 * a4,
     exp |-> e]

HOf(f, e) == HFraction(f[1] + 1, f[2] + 1, f[3] + 1, f[4] + 1, e)

\* h_function as an exact fraction: the value is (num / den) * 2^exp
h_function(b) == HOf(features(b), popcount(b))

\* a.total_cmp(&b) == Less for two h values
HLess(h1, h2) ==
    LET e == Min2(h1.exp, h2.exp)
    IN  (h1.num * h2.den) * (2 ^ (h1.exp - e)) < (h2.num * h1.den) * (2 ^ (h2.exp - e))

\* Board compared field by field, player first
BoardLt(a, b) == PairLt(<<a.player, a.opponent>>, <<b.player, b.opponent>>)

\* ------------------------------------------------------------------------
\* search/search.rs, search/move_ordering.rs : the backward expansion
\* ------------------------------------------------------------------------
\* the `while b != 0 { ... for i in 1..num` loops: predecessors in the order
\* the source builds them
\* `for i in 1..num`: one predecessor per stored mask after the first
PredsAt(board, index, R) ==
    IF Len(R) <= 1 THEN << >>
    ELSE [i \in 1..(Len(R) - 1) |-> PrevBoard(board, index, R[i + 1])]

RECURSIVE PredsOf(_, _)
PredsOf(board, b) ==
    IF b = {} THEN << >>
    ELSE PredsAt(board, trailing_zeros(b),
                 retrospective_flip(trailing_zeros(b), board.player, board.opponent))
         \o PredsOf(board, b \ {trailing_zeros(b)})

Range(f) == { f[i] : i \in DOMAIN f }

\* next_w_score.sort_by(total_cmp, then Board order)
\* (score, board) pairs compared by score, then by board
ScoredLt(x, y) ==
    \/ HLess(x.h, y.h)
    \/ (~HLess(y.h, x.h) /\ BoardLt(x.b, y.b))

RECURSIVE SortScored(_)
SortScored(S) ==
    IF S = {} THEN << >>
    ELSE << (CHOOSE x \in S : \A y \in S \ {x} : ScoredLt(x, y)).b >>
         \o SortScored({ z \in S : \E y \in S \ {z} : ScoredLt(y, z) })

SortByScore(S) == SortScored({ [h |-> h_function(x), b |-> x] : x \in S })

\* the pass predecessor, tried first when the previous step was not a pass
\* and the opponent has no legal move
PassChildAlways(board, from_pass) ==
    IF get_moves(board.opponent, board.player) = {}
    THEN << [board |-> Board(board.opponent, board.player), from_pass |-> TRUE] >>
    ELSE << >>
PassChild(board, from_pass) ==
    IF ~from_pass /\ get_moves(board.opponent, board.player) = {}
    THEN << [board |-> Board(board.opponent, board.player), from_pass |-> TRUE] >>
    ELSE << >>

\* every recursive call of one activation, in call order
\* (strategy 1: retrospective_search, 2: retrospective_search_move_ordering)
AsCalls(order) == [i \in 1..Len(order) |-> [board |-> order[i], from_pass |-> FALSE]]
InOrder(strat, preds) == IF strat = 2 THEN SortByScore(Range(preds)) ELSE preds
Children(strat, board, from_pass) ==
    PassChild(board, from_pass)
    \o AsCalls(InOrder(strat, PredsOf(board, board.opponent \ CENTER_MASK)))

\* ------------------------------------------------------------------------
\* Bounds of the model
\* ------------------------------------------------------------------------
MaxKeyHi == 1
MaxKeyLo == 2
MaxCacheSize == 3
MaxTableSize == 4
MaxExtra == 2
MaxTargetExtra == 3
MaxD == 5
MaxNodeLimit == 3
MaxTableLimit == 2
NumWorkers == 2
MaxGbExtra == 2
MaxGbNodeLimit == 2
MinBlockSize == 1
BfsJobs == 2

\* the default of MAX_NODES
DefaultNodeLimit == 1000000
\* Btable::new(0x100000000, 0x10000) of the DFS drivers
DfsTableSize == {32}
DfsCacheSize == 65536

\* keys of the Btable machine: [u64; 2] values
Keys == { << WordOf(a), WordOf(b) >> : a \in 0..MaxKeyHi, b \in 0..MaxKeyLo }

\* the twelve squares around the centre
Ring == (U64(<<0, 0, 60, 60, 60, 60, 0, 0>>)) \ CENTER_MASK

\* every board that passes validate_board with at most n discs outside the
\* centre, all of them on squares of R
BoardsOn(R, n) ==
    UNION { { Board(P, (CENTER_MASK \cup E) \ P) : P \in SUBSET (CENTER_MASK \cup E) } :
            E \in { X \in SUBSET R : Cardinality(X) <= n } }

FlipBoards == BoardsOn(Ring, MaxExtra)

\* targets of the searches: the centre plus stones on three squares north of it
TargetRegion == {18, 19, 20}
Targets == BoardsOn(TargetRegion, MaxTargetExtra)
DiscSettings == 4..MaxD
NodeLimits == (0..MaxNodeLimit) \cup {DefaultNodeLimit}

\* targets of the parallel search: stones north, west and east of the centre
ParRegion == {19, 26, 29}
ParTargets == { b \in BoardsOn(ParRegion, MaxTargetExtra) : popcount(b) >= 6 }
ParDiscSettings == {MaxD}
ParNodeLimits == {MaxNodeLimit, DefaultNodeLimit}
\* the default of TABLE_SIZE
DefaultTableLimit == 100000
TableLimits == {MaxTableLimit, DefaultTableLimit}

\* strategy 4: its workers, targets and settings
\* stones north and west of the centre
GbRegion == {19, 26}
GbTargets == { b \in BoardsOn(GbRegion, MaxGbExtra) : popcount(b) >= 5 }
GbDiscSettings == {MaxD}
GbNodeLimits == {MaxGbNodeLimit, DefaultNodeLimit}

\* strategy 5: the default of --block-size and a small one, the worker count
DefaultBlockSize == 1000000
BlockSizes == {MinBlockSize, DefaultBlockSize}

\* ------------------------------------------------------------------------
\* State
\* ------------------------------------------------------------------------
VARIABLES
    \* the Btable machine: the object, and a record of its last operation
    btable, bt_last, bt_inserted, bt_forgot,
    \* the predecessor machine: position s, square q, the list R, the chosen
    \* index, the predecessor, the forward flip and the position after the move
    rf_pc, rf_board, rf_q, rf_result, rf_i, rf_pred, rf_flipped, rf_next,
    \* the inputs of one search: strategy, target, D, N_max, TABLE_SIZE, L_D
    strategy, target, discs, node_limit, table_limit, leafnode,
    \* strategies 1 and 2: the call stack, the visited table, and how often
    \* Unknown was handed to a caller
    stack, retrospective_searched, passed_up,
    \* every search: the value the entry point returns, the node counter, the
    \* verdict the driver records; history: a cap was observed, a position of
    \* L_D was met
    retval, node_count, result, cap_seen, leaf_hit,
    \* strategy 3: the live activations of par_retro_core by call path, the
    \* visited set (also strategy 4), table_count and the stop flag
    par_acts, visited, table_count, stop,
    \* strategy 4: the workers' positions and the shared queue, counters and flags
    workers, pq, visited_count, done, inflight, notfound, found,
    \* strategy 5: the position of the driver, the block mode and size, the
    \* files of tmp_dir, the level being built and its processed blocks
    bfs_pc, bfs_mode, block_size, files, bfs_level, bfs_blocks,
    \* a run of the drivers: the position of the loop, the programs still to
    \* run, the boards read from the input and those not yet processed, the
    \* lines of the NG and result outputs, the boards handed to make_fwd_table
    run_pc, runs, input, boards, ng, ok, fwd_calls,
    \* one call of a solver-backed filter: the filter, its board, the status
    \* the solver gave and what the filter and its caller made of it
    solver,
    \* one call of merge_files: its position, the files, the contents the
    \* input files had at the call
    mg_pc, mg_files, mg_inputs,
    \* one level step of process_bfs_par: the number of records of
    \* r_{k+1}.bin, the main thread, the workers, `next`, `cancel`, the blocks
    \* each worker processed, and first_err
    lv_count, lv_pc, lv_workers, lv_next, lv_cancel, lv_log, first_err,
    \* one call of a pure function of othello.rs, search.rs or prunings/ on
    \* its own: the function, its arguments and what it returned
    probe

btVars == <<btable, bt_last, bt_inserted, bt_forgot>>
rfVars == <<rf_pc, rf_board, rf_q, rf_result, rf_i, rf_pred, rf_flipped, rf_next>>
inVars == <<strategy, target, discs, node_limit, table_limit, leafnode>>
dfsVars == <<stack, retrospective_searched, passed_up>>
outVars == <<retval, node_count, result, cap_seen, leaf_hit>>
parVars == <<par_acts, visited, table_count, stop>>
gbVars == <<workers, pq, visited_count, done, inflight, notfound, found>>
bfsVars == <<bfs_pc, bfs_mode, block_size, files, bfs_level, bfs_blocks>>
searchVars == <<inVars, dfsVars, outVars, parVars, gbVars, bfsVars>>
runVars == <<run_pc, runs, input, boards, ng, ok, fwd_calls>>
mgVars == <<mg_pc, mg_files, mg_inputs>>
lvVars == <<lv_count, lv_pc, lv_workers, lv_next, lv_cancel, lv_log, first_err>>
auxVars == <<runVars, solver, mgVars, lvVars, probe>>
vars == <<btVars, rfVars, searchVars, auxVars>>

NoBoard == Board({}, {})

BtIdle ==
    /\ btable = BtableNew({}, 0)
    /\ bt_last = [op |-> "none"]
    /\ bt_inserted = {}
    /\ bt_forgot = FALSE

RfIdle ==
    /\ rf_pc = "idle"
    /\ rf_board = NoBoard
    /\ rf_q = 0
    /\ rf_result = << >>
    /\ rf_i = 0
    /\ rf_pred = NoBoard
    /\ rf_flipped = {}
    /\ rf_next = NoBoard

DfsIdle ==
    /\ stack = << >>
    /\ retrospective_searched = BtableNew({}, 0)
    /\ passed_up = 0

ParIdle ==
    /\ par_acts = << >>
    /\ visited = {}
    /\ table_count = 0
    /\ stop = 0

\* nothing returned, counted or recorded yet
OutInit ==
    /\ retval = "none"
    /\ node_count = 0
    /\ result = "none"
    /\ cap_seen = FALSE
    /\ leaf_hit = FALSE

GbIdle ==
    /\ workers = << >>
    /\ pq = {}
    /\ visited_count = 0
    /\ done = FALSE
    /\ inflight = 0
    /\ notfound = FALSE
    /\ found = FALSE

BfsIdle ==
    /\ bfs_pc = "idle"
    /\ bfs_mode = "none"
    /\ block_size = 0
    /\ files = << >>
    /\ bfs_level = 0
    /\ bfs_blocks = {}

RunIdle ==
    /\ run_pc = "idle"
    /\ runs = << >>
    /\ input = << >>
    /\ boards = << >>
    /\ ng = << >>
    /\ ok = << >>
    /\ fwd_calls = {}

SolverIdle == solver = [pc |-> "idle"]

MergeIdle ==
    /\ mg_pc = [step |-> "idle", i |-> 0]
    /\ mg_files = << >>
    /\ mg_inputs = << >>

LevelIdle ==
    /\ lv_count = 0
    /\ lv_pc = [step |-> "idle", h |-> 0]
    /\ lv_workers = << >>
    /\ lv_next = 0
    /\ lv_cancel = FALSE
    /\ lv_log = {}
    /\ first_err = "none"

ProbeIdle == probe = [pc |-> "idle"]

AuxIdle == RunIdle /\ SolverIdle /\ MergeIdle /\ LevelIdle /\ ProbeIdle

SearchIdle ==
    /\ strategy = 0
    /\ target = NoBoard
    /\ discs = 0
    /\ node_limit = 0
    /\ table_limit = 0
    /\ leafnode = {}
    /\ OutInit
    /\ DfsIdle
    /\ ParIdle
    /\ GbIdle
    /\ BfsIdle

\* ------------------------------------------------------------------------
\* The Btable machine: Btable::new, then any sequence of insert and clear
\* ------------------------------------------------------------------------
InitBtable ==
    /\ \E t \in 1..MaxTableSize, c \in 1..MaxCacheSize : btable = BtableNew(WordOf(t), c)
    /\ bt_last = [op |-> "new"]
    /\ bt_inserted = {}
    /\ bt_forgot = FALSE
    /\ RfIdle
    /\ AuxIdle
    /\ SearchIdle

\* an insert that empties the cache without merging it
Forgets(bt, uni) ==
    /\ BtableInsert(bt, uni).ret
    /\ Cardinality(bt.cache \cup {uni}) >= bt.cache_size
    /\ OverCapacity(bt, Len(bt.table) + Cardinality(bt.cache \cup {uni}))

BtInsert(k) ==
    /\ bt_last.op # "none"
    /\ btable' = BtableInsert(btable, k).bt
    /\ bt_last' = [op |-> "insert", key |-> k, ret |-> BtableInsert(btable, k).ret,
                   pre |-> btable, pre_inserted |-> bt_inserted, pre_forgot |-> bt_forgot]
    /\ bt_inserted' = bt_inserted \cup {k}
    /\ bt_forgot' = (bt_forgot \/ Forgets(btable, k))
    /\ UNCHANGED <<rfVars, searchVars, auxVars>>

BtClear ==
    /\ bt_last.op # "none"
    /\ btable' = BtableClear(btable)
    /\ bt_last' = [op |-> "clear"]
    /\ bt_inserted' = {}
    /\ bt_forgot' = FALSE
    /\ UNCHANGED <<rfVars, searchVars, auxVars>>

NextBtable == (\E k \in Keys : BtInsert(k)) \/ BtClear

SpecBtable == InitBtable /\ [][NextBtable]_vars

\* ------------------------------------------------------------------------
\* The predecessor machine: retrospective_flip on a position, one of its
\* predecessors, and the forward move from it
\* ------------------------------------------------------------------------
InitFlip ==
    /\ rf_pc = "start"
    /\ rf_board \in FlipBoards
    /\ rf_q = 0
    /\ rf_result = << >>
    /\ rf_i = 0
    /\ rf_pred = NoBoard
    /\ rf_flipped = {}
    /\ rf_next = NoBoard
    /\ BtIdle
    /\ AuxIdle
    /\ SearchIdle

\* search.rs 743-755: a non-centre opponent square and its flip list
RetroFlip ==
    /\ rf_pc = "start"
    /\ \E q \in rf_board.opponent \ CENTER_MASK :
         /\ rf_q' = q
         /\ rf_result' = retrospective_flip(q, rf_board.player, rf_board.opponent)
    /\ rf_pc' = "listed"
    /\ UNCHANGED <<rf_board, rf_i, rf_pred, rf_flipped, rf_next, btVars, searchVars, auxVars>>

\* search.rs 761-769: `for i in 1..num`, the predecessor of mask i
TakePred ==
    /\ rf_pc = "listed"
    /\ \E i \in 1..(Len(rf_result) - 1) :
         /\ rf_i' = i
         /\ rf_pred' = PrevBoard(rf_board, rf_q, rf_result[i + 1])
    /\ rf_pc' = "pred"
    /\ UNCHANGED <<rf_board, rf_q, rf_result, rf_flipped, rf_next, btVars, searchVars, auxVars>>

\* search.rs 362-373: the mover of the predecessor plays q
PlayMove ==
    /\ rf_pc = "pred"
    /\ LET flipped == flip(rf_q, rf_pred.player, rf_pred.opponent)
       IN  /\ rf_flipped' = flipped
           /\ rf_next' = Board(Xor(rf_pred.opponent, flipped),
                               Xor(rf_pred.player, flipped \cup {rf_q}))
    /\ rf_pc' = "played"
    /\ UNCHANGED <<rf_board, rf_q, rf_result, rf_i, rf_pred, btVars, searchVars, auxVars>>

NextFlip == RetroFlip \/ TakePred \/ PlayMove

SpecFlip == InitFlip /\ [][NextFlip]_vars

\* ------------------------------------------------------------------------
\* Strategies 1 and 2: run_dfs / run_move_ordering on one target
\* ------------------------------------------------------------------------
\* an activation: its arguments, its position, `let uni = board.unique()`,
\* the verdict of the shape filters and the list of its recursive calls with
\* the index of the one in progress
Frame(b, fp) == [board |-> b, from_pass |-> fp, pc |-> "enter", uni |-> unique(b),
                 filter |-> "none", children |-> << >>, idx |-> 0]

InitDfs ==
    /\ discs \in DiscSettings
    /\ leafnode = LeafCache(discs)
    /\ target \in Targets
    /\ stack = << Frame(target, FALSE) >>
    /\ strategy \in {1, 2}
    /\ node_limit \in NodeLimits
    /\ table_limit = 0
    /\ retrospective_searched = BtableClear(BtableNew(DfsTableSize, DfsCacheSize))
    /\ passed_up = 0
    /\ OutInit
    /\ ParIdle
    /\ BtIdle
    /\ RfIdle
    /\ AuxIdle
    /\ GbIdle
    /\ BfsIdle

Top == stack[Len(stack)]
Pop == SubSeq(stack, 1, Len(stack) - 1)
At(pc) == stack # << >> /\ Top.pc = pc /\ result = "none"
SetTop(f) == [stack EXCEPT ![Len(stack)] = f]

\* the visited-table step of the call on top of the stack
Visit == BtableInsert(retrospective_searched, Top.uni)

\* what the shape filters say about a board: "true", "false", or "panic"
\* when check_seg3_more aborts
Filtered(b) ==
    IF ~check_occupancy(b.player \cup b.opponent) THEN "false"
    ELSE seg3_more_outcome(b.player, b.opponent)

\* `if (num_disc as i32) <= discs`: the answer is membership in the leaf set
DfsLeaf ==
    /\ At("enter")
    /\ popcount(Top.board) <= discs
    /\ retval' = IF Top.uni \in leafnode THEN "Found" ELSE "NotFound"
    /\ leaf_hit' = (leaf_hit \/ Top.uni \in leafnode)
    /\ stack' = Pop
    /\ UNCHANGED <<node_count, retrospective_searched, result, cap_seen, passed_up>>
    /\ UNCHANGED <<btVars, rfVars, auxVars, inVars, parVars, gbVars, bfsVars>>

\* `if !retrospective_searched.insert(uni)`
DfsRevisit ==
    /\ At("enter")
    /\ popcount(Top.board) > discs
    /\ ~Visit.ret
    /\ retval' = "NotFound"
    /\ stack' = Pop
    /\ retrospective_searched' = Visit.bt
    /\ UNCHANGED <<node_count, result, cap_seen, passed_up>>
    /\ UNCHANGED <<leaf_hit, btVars, rfVars, auxVars, inVars, parVars, gbVars, bfsVars>>

\* `*node_count += 1; if *node_count > node_limit`
DfsCap ==
    /\ At("enter")
    /\ popcount(Top.board) > discs
    /\ Visit.ret
    /\ node_count + 1 > node_limit
    /\ node_count' = node_count + 1
    /\ retrospective_searched' = Visit.bt
    /\ retval' = "Unknown"
    /\ cap_seen' = TRUE
    /\ stack' = Pop
    /\ UNCHANGED <<result, passed_up>>
    /\ UNCHANGED <<leaf_hit, btVars, rfVars, auxVars, inVars, parVars, gbVars, bfsVars>>

\* a new position within the node limit: the shape filters run
DfsCount ==
    /\ At("enter")
    /\ popcount(Top.board) > discs
    /\ Visit.ret
    /\ node_count + 1 <= node_limit
    /\ node_count' = node_count + 1
    /\ retrospective_searched' = Visit.bt
    /\ stack' = SetTop([Top EXCEPT !.pc = "filtered", !.filter = Filtered(Top.board)])
    /\ UNCHANGED <<retval, result, cap_seen, passed_up>>
    /\ UNCHANGED <<leaf_hit, btVars, rfVars, auxVars, inVars, parVars, gbVars, bfsVars>>

\* check_occupancy or check_seg3_more rejects the board (a panic of
\* check_seg3_more ends the program)
DfsPrune ==
    /\ At("filtered")
    /\ Top.filter # "true"
    /\ IF Top.filter = "panic"
       THEN /\ stack' = << >>
            /\ retval' = "none"
            /\ result' = "Panic"
       ELSE /\ stack' = Pop
            /\ retval' = "NotFound"
            /\ result' = result
    /\ UNCHANGED <<node_count, retrospective_searched, cap_seen, passed_up>>
    /\ UNCHANGED <<leaf_hit, btVars, rfVars, auxVars, inVars, parVars, gbVars, bfsVars>>

\* the board passes: the pass predecessor and the predecessors by a move
DfsExpand ==
    /\ At("filtered")
    /\ Top.filter = "true"
    /\ stack' = SetTop([Top EXCEPT !.pc = "loop",
                                   !.children = Children(strategy, Top.board, Top.from_pass)])
    /\ retval' = "NotFound"
    /\ UNCHANGED <<node_count, retrospective_searched, result, cap_seen, passed_up>>
    /\ UNCHANGED <<leaf_hit, btVars, rfVars, auxVars, inVars, parVars, gbVars, bfsVars>>

\* the `match` on a recursive call's value: Found and Unknown end the caller
\* with the same value, NotFound lets its loop go on
PassesUpFoundOnly(r) == r = "Found"
PassesUp(r) == r \in {"Found", "Unknown"}

\* `SearchResult::Found => return Found`, `Unknown => return Unknown`
DfsPassUp ==
    /\ At("loop")
    /\ PassesUp(retval)
    /\ stack' = Pop
    /\ passed_up' = IF retval = "Unknown" THEN passed_up + 1 ELSE passed_up
    /\ UNCHANGED <<retval, node_count, retrospective_searched, result, cap_seen>>
    /\ UNCHANGED <<leaf_hit, btVars, rfVars, auxVars, inVars, parVars, gbVars, bfsVars>>

\* nothing found so far and another predecessor to try: the recursive call
DfsNextChild ==
    /\ At("loop")
    /\ ~PassesUp(retval)
    /\ Top.idx < Len(Top.children)
    /\ LET c == Top.children[Top.idx + 1]
       IN  stack' = SetTop([Top EXCEPT !.idx = @ + 1]) \o << Frame(c.board, c.from_pass) >>
    /\ retval' = "none"
    /\ UNCHANGED <<node_count, retrospective_searched, result, cap_seen, passed_up>>
    /\ UNCHANGED <<leaf_hit, btVars, rfVars, auxVars, inVars, parVars, gbVars, bfsVars>>

\* the loops end: `SearchResult::NotFound`
DfsExhausted ==
    /\ At("loop")
    /\ ~PassesUp(retval)
    /\ Top.idx >= Len(Top.children)
    /\ stack' = Pop
    /\ retval' = "NotFound"
    /\ UNCHANGED <<node_count, retrospective_searched, result, cap_seen, passed_up>>
    /\ UNCHANGED <<leaf_hit, btVars, rfVars, auxVars, inVars, parVars, gbVars, bfsVars>>

\* the root call returns to the driver, which records the verdict
DfsDone ==
    /\ strategy \in {1, 2}
    /\ stack = << >>
    /\ retval # "none"
    /\ result = "none"
    /\ result' = retval
    /\ UNCHANGED <<stack, retval, node_count, retrospective_searched, cap_seen, passed_up>>
    /\ UNCHANGED <<leaf_hit, btVars, rfVars, auxVars, inVars, parVars, gbVars, bfsVars>>

NextDfs ==
    \/ DfsLeaf \/ DfsRevisit \/ DfsCap \/ DfsCount \/ DfsPrune \/ DfsExpand
    \/ DfsPassUp \/ DfsNextChild \/ DfsExhausted \/ DfsDone

SpecDfs == InitDfs /\ [][NextDfs]_vars

\* ------------------------------------------------------------------------
\* Strategy 3: retrospective_search_parallel / par_retro_core
\* ------------------------------------------------------------------------
PAR_MAX_DEPTH == 12
PAR_MIN_CHILDREN == 4
should_split(depth, children) == depth < PAR_MAX_DEPTH /\ children >= PAR_MIN_CHILDREN

\* children_score.sort_by(total_cmp, then the index in `children`)
IndexedLt(x, y) ==
    \/ HLess(x.h, y.h)
    \/ (~HLess(y.h, x.h) /\ x.i < y.i)

RECURSIVE SortIndexed(_)
SortIndexed(S) ==
    IF S = {} THEN << >>
    ELSE << (CHOOSE x \in S : \A y \in S \ {x} : IndexedLt(x, y)).c >>
         \o SortIndexed({ z \in S : \E y \in S \ {z} : IndexedLt(y, z) })

ScoreCalls(calls) ==
    SortIndexed({ [h |-> h_function(calls[i].board), i |-> i, c |-> calls[i]] :
                  i \in 1..Len(calls) })

\* the pass predecessor, then the predecessors by a move, sorted by h
ParChildren(board, from_pass) ==
    ScoreCalls(PassChild(board, from_pass)
               \o AsCalls(PredsOf(board, board.opponent \ CENTER_MASK)))

\* one activation of par_retro_core; its key in par_acts is the path of
\* child indexes from the root call, whose length is `depth`
Act(b, fp) ==
    [board |-> b, from_pass |-> fp, pc |-> "enter", uni |-> unique(b),
     children |-> << >>, idx |-> 0, split |-> FALSE, local_best |-> "NotFound",
     pending |-> 0]

Parent(a) == SubSeq(a, 1, Len(a) - 1)
ActOfChild(acts, p, k) == Act(acts[p].children[k].board, acts[p].children[k].from_pass)
Without(acts, a) == [q \in DOMAIN acts \ {a} |-> acts[q]]
SetPc(acts, a, pc) == [acts EXCEPT ![a].pc = pc]

\* the caller p starts its k-th recursive call and waits for it
CallChild(acts, p, k) ==
    [q \in DOMAIN acts \cup {Append(p, k)} |->
        IF q = p THEN [acts[p] EXCEPT !.pc = "wait", !.idx = k]
        ELSE IF q \in DOMAIN acts THEN acts[q]
        ELSE ActOfChild(acts, p, k)]

\* the first child of a scope returned and was handled: the rest is spawned
SpawnRest(acts, p) ==
    [q \in DOMAIN acts \cup { Append(p, k) : k \in 2..Len(acts[p].children) } |->
        IF q = p THEN [acts[p] EXCEPT !.pc = "join",
                                       !.pending = Len(acts[p].children) - 1]
        ELSE IF q \in DOMAIN acts THEN acts[q]
        ELSE ActOfChild(acts, p, q[Len(q)])]

\* the closure run for child a of a scope ends
HandlerDone(acts, a) ==
    IF a[Len(a)] = 1 THEN SpawnRest(Without(acts, a), Parent(a))
    ELSE [Without(acts, a) EXCEPT ![Parent(a)].pending = @ - 1]

\* activation a returns v: what its thread does up to its next access to
\* shared memory.  In the serial loop Found and Unknown return at once and
\* NotFound leads to the load of `stop`; in a scope the closure matches on v.
RECURSIVE ParReturn(_, _, _)
ParReturn(acts, a, v) ==
    IF a = << >> THEN [acts |-> << >>, ret |-> v]
    ELSE IF ~acts[Parent(a)].split
    THEN IF PassesUp(v) THEN ParReturn(Without(acts, a), Parent(a), v)
         ELSE [acts |-> SetPc(Without(acts, a), Parent(a), "serial_check"), ret |-> "none"]
    ELSE IF v = "Found" THEN [acts |-> SetPc(acts, a, "store_found"), ret |-> "none"]
    ELSE IF v = "Unknown" THEN [acts |-> SetPc(acts, a, "load_best"), ret |-> "none"]
    ELSE [acts |-> HandlerDone(acts, a), ret |-> "none"]

\* the children are listed: the first one is called, in a scope or serially
StartChildren(acts, a, children) ==
    CallChild([acts EXCEPT ![a].children = children,
                           ![a].split = should_split(Len(a), Len(children))], a, 1)

\* after the node counter: the shape filters and the expansion
ParExpand(acts, a, filter, children) ==
    IF filter # "true" \/ children = << >> THEN ParReturn(acts, a, "NotFound")
    ELSE [acts |-> StartChildren(acts, a, children), ret |-> "none"]

InitPar ==
    /\ discs \in ParDiscSettings
    /\ leafnode = LeafCache(discs)
    /\ target \in ParTargets
    /\ par_acts = [q \in {<< >>} |-> Act(target, FALSE)]
    /\ strategy = 3
    /\ node_limit \in ParNodeLimits
    /\ table_limit \in TableLimits
    /\ visited = {}
    /\ table_count = 0
    /\ stop = 0
    /\ OutInit
    /\ DfsIdle
    /\ BtIdle
    /\ RfIdle
    /\ AuxIdle
    /\ GbIdle
    /\ BfsIdle

Running(a, pc) == a \in DOMAIN par_acts /\ par_acts[a].pc = pc /\ result = "none"
Returns(r) == par_acts' = r.acts /\ retval' = r.ret

\* `match sh.stop.load(..) { 1 => return Found, 2 => return Unknown, _ => {} }`
StopVerdictNone(flag) == "none"
StopVerdict(flag) == IF flag = 1 THEN "Found" ELSE IF flag = 2 THEN "Unknown" ELSE "none"

\* `match sh.stop.load(..)`, then the leaf lookup for at most D discs
ParEnter(a) ==
    /\ Running(a, "enter")
    /\ IF StopVerdict(stop) # "none"
       THEN Returns(ParReturn(par_acts, a, StopVerdict(stop))) /\ UNCHANGED leaf_hit
       ELSE IF popcount(par_acts[a].board) > discs
       THEN Returns([acts |-> SetPc(par_acts, a, "table"), ret |-> "none"]) /\ UNCHANGED leaf_hit
       ELSE IF par_acts[a].uni \in leafnode
       THEN Returns([acts |-> SetPc(par_acts, a, "leaf_cas"), ret |-> "none"]) /\ leaf_hit' = TRUE
       ELSE Returns(ParReturn(par_acts, a, "NotFound")) /\ UNCHANGED leaf_hit
    /\ UNCHANGED <<node_count, result, cap_seen, visited, table_count, stop>>
    /\ UNCHANGED <<btVars, rfVars, auxVars, inVars, dfsVars, gbVars, bfsVars>>

\* `sh.stop.compare_exchange(0, 1, ..)` of a leaf in L_D; return Found
ParLeafCas(a) ==
    /\ Running(a, "leaf_cas")
    /\ stop' = IF stop = 0 THEN 1 ELSE stop
    /\ Returns(ParReturn(par_acts, a, "Found"))
    /\ UNCHANGED <<node_count, result, cap_seen, leaf_hit, visited, table_count>>
    /\ UNCHANGED <<btVars, rfVars, auxVars, inVars, dfsVars, gbVars, bfsVars>>

\* `if n < sh.table_limit`: the visit inserts, else it only tests
TableHasRoomAlways(n, limit) == TRUE
TableHasRoom(n, limit) == n < limit

\* `let n = sh.table_count.fetch_add(1, ..) + 1; if n < sh.table_limit`
ParTable(a) ==
    /\ Running(a, "table")
    /\ table_count' = table_count + 1
    /\ par_acts' = SetPc(par_acts, a, IF TableHasRoom(table_count + 1, table_limit) THEN "insert" ELSE "contains")
    /\ UNCHANGED <<retval, node_count, result, cap_seen, leaf_hit, visited, stop>>
    /\ UNCHANGED <<btVars, rfVars, auxVars, inVars, dfsVars, gbVars, bfsVars>>

\* `if !sh.visited.insert(uni)` below the table limit, `contains` above it
ParVisit(a) ==
    /\ a \in DOMAIN par_acts /\ par_acts[a].pc \in {"insert", "contains"} /\ result = "none"
    /\ IF par_acts[a].uni \in visited
       THEN Returns(ParReturn(par_acts, a, "NotFound")) /\ UNCHANGED visited
       ELSE /\ Returns([acts |-> SetPc(par_acts, a, "count"), ret |-> "none"])
            /\ visited' = IF par_acts[a].pc = "insert" THEN visited \cup {par_acts[a].uni}
                          ELSE visited
    /\ UNCHANGED <<node_count, result, cap_seen, leaf_hit, table_count, stop>>
    /\ UNCHANGED <<btVars, rfVars, auxVars, inVars, dfsVars, gbVars, bfsVars>>

\* `let n = sh.node_count.fetch_add(1, ..) + 1; if n > sh.node_limit`
ParCap(a) ==
    /\ Running(a, "count")
    /\ node_count + 1 > node_limit
    /\ node_count' = node_count + 1
    /\ cap_seen' = TRUE
    /\ par_acts' = SetPc(par_acts, a, "cap_cas")
    /\ UNCHANGED <<retval, result, leaf_hit, visited, table_count, stop>>
    /\ UNCHANGED <<btVars, rfVars, auxVars, inVars, dfsVars, gbVars, bfsVars>>

\* within the limit: the shape filters (a panic of check_seg3_more ends the
\* program), the children, the first call
ParCount(a) ==
    /\ Running(a, "count")
    /\ node_count + 1 <= node_limit
    /\ node_count' = node_count + 1
    /\ IF Filtered(par_acts[a].board) = "panic"
       THEN result' = "Panic" /\ UNCHANGED <<par_acts, retval>>
       ELSE /\ \E r \in { ParExpand(par_acts, a, Filtered(par_acts[a].board),
                                     ParChildren(par_acts[a].board, par_acts[a].from_pass)) } :
                    Returns(r)
            /\ UNCHANGED result
    /\ UNCHANGED <<cap_seen, leaf_hit, visited, table_count, stop>>
    /\ UNCHANGED <<btVars, rfVars, auxVars, inVars, dfsVars, gbVars, bfsVars>>

\* a variant that stores 2 whatever the flag holds
ParCapCasStore(a) ==
    /\ Running(a, "cap_cas")
    /\ stop' = 2
    /\ Returns(ParReturn(par_acts, a, "Unknown"))
    /\ UNCHANGED <<node_count, result, cap_seen, leaf_hit, visited, table_count>>
    /\ UNCHANGED <<btVars, rfVars, auxVars, inVars, dfsVars, gbVars, bfsVars>>

\* `sh.stop.compare_exchange(0, 2, ..)`; return Unknown
ParCapCas(a) ==
    /\ Running(a, "cap_cas")
    /\ stop' = IF stop = 0 THEN 2 ELSE stop
    /\ Returns(ParReturn(par_acts, a, "Unknown"))
    /\ UNCHANGED <<node_count, result, cap_seen, leaf_hit, visited, table_count>>
    /\ UNCHANGED <<btVars, rfVars, auxVars, inVars, dfsVars, gbVars, bfsVars>>

\* the serial loop after a NotFound child: `match sh.stop.load(..)`, then
\* the next child or the end of the loop
ParSerialCheck(a) ==
    /\ Running(a, "serial_check")
    /\ \E r \in { IF stop = 1 THEN ParReturn(par_acts, a, "Found")
                   ELSE IF stop = 2 THEN ParReturn(par_acts, a, "Unknown")
                   ELSE IF par_acts[a].idx < Len(par_acts[a].children)
                   THEN [acts |-> CallChild(par_acts, a, par_acts[a].idx + 1), ret |-> "none"]
                   ELSE ParReturn(par_acts, a, "NotFound") } :
           Returns(r)
    /\ UNCHANGED <<node_count, result, cap_seen, leaf_hit, visited, table_count, stop>>
    /\ UNCHANGED <<btVars, rfVars, auxVars, inVars, dfsVars, gbVars, bfsVars>>

\* the closure on Found: `local_best.store(Found)`
ParStoreFound(a) ==
    /\ Running(a, "store_found")
    /\ par_acts' = [par_acts EXCEPT ![a].pc = "stop_found",
                                    ![Parent(a)].local_best = "Found"]
    /\ UNCHANGED <<retval, node_count, result, cap_seen, leaf_hit, visited, table_count, stop>>
    /\ UNCHANGED <<btVars, rfVars, auxVars, inVars, dfsVars, gbVars, bfsVars>>

\* the closure on Found: `sh.stop.compare_exchange(0, 1, ..)`
ParStopFound(a) ==
    /\ Running(a, "stop_found")
    /\ stop' = IF stop = 0 THEN 1 ELSE stop
    /\ par_acts' = HandlerDone(par_acts, a)
    /\ UNCHANGED <<retval, node_count, result, cap_seen, leaf_hit, visited, table_count>>
    /\ UNCHANGED <<btVars, rfVars, auxVars, inVars, dfsVars, gbVars, bfsVars>>

\* the closure on Unknown: `if local_best.load(..) == NotFound`
ParLoadBest(a) ==
    /\ Running(a, "load_best")
    /\ par_acts' = IF par_acts[Parent(a)].local_best = "NotFound"
                   THEN SetPc(par_acts, a, "store_unknown")
                   ELSE HandlerDone(par_acts, a)
    /\ UNCHANGED <<retval, node_count, result, cap_seen, leaf_hit, visited, table_count, stop>>
    /\ UNCHANGED <<btVars, rfVars, auxVars, inVars, dfsVars, gbVars, bfsVars>>

\* the closure on Unknown: `local_best.store(Unknown)`
ParStoreUnknown(a) ==
    /\ Running(a, "store_unknown")
    /\ par_acts' = HandlerDone([par_acts EXCEPT ![Parent(a)].local_best = "Unknown"], a)
    /\ UNCHANGED <<retval, node_count, result, cap_seen, leaf_hit, visited, table_count, stop>>
    /\ UNCHANGED <<btVars, rfVars, auxVars, inVars, dfsVars, gbVars, bfsVars>>

\* the scope ends when every spawned task has ended: `match local_best.load(..)`
ParJoin(a) ==
    /\ Running(a, "join")
    /\ par_acts[a].pending = 0
    /\ Returns(ParReturn(par_acts, a, par_acts[a].local_best))
    /\ UNCHANGED <<node_count, result, cap_seen, leaf_hit, visited, table_count, stop>>
    /\ UNCHANGED <<btVars, rfVars, auxVars, inVars, dfsVars, gbVars, bfsVars>>

\* the root call returned and the driver records the verdict
ParDone ==
    /\ strategy = 3
    /\ retval # "none"
    /\ result = "none"
    /\ result' = retval
    /\ UNCHANGED <<retval, node_count, cap_seen, leaf_hit, parVars>>
    /\ UNCHANGED <<btVars, rfVars, auxVars, inVars, dfsVars, gbVars, bfsVars>>

NextPar ==
    \/ \E a \in DOMAIN par_acts : ParEnter(a)
    \/ \E a \in DOMAIN par_acts : ParLeafCas(a)
    \/ \E a \in DOMAIN par_acts : ParTable(a)
    \/ \E a \in DOMAIN par_acts : ParVisit(a)
    \/ \E a \in DOMAIN par_acts : ParCap(a)
    \/ \E a \in DOMAIN par_acts : ParCount(a)
    \/ \E a \in DOMAIN par_acts : ParCapCas(a)
    \/ \E a \in DOMAIN par_acts : ParSerialCheck(a)
    \/ \E a \in DOMAIN par_acts : ParStoreFound(a)
    \/ \E a \in DOMAIN par_acts : ParStopFound(a)
    \/ \E a \in DOMAIN par_acts : ParLoadBest(a)
    \/ \E a \in DOMAIN par_acts : ParStoreUnknown(a)
    \/ \E a \in DOMAIN par_acts : ParJoin(a)
    \/ ParDone

SpecPar == InitPar /\ [][NextPar]_vars

\* ------------------------------------------------------------------------
\* par_search.rs 218-297: the choice between the scope and the serial loop,
\* for an activation at any depth with any number of sorted children.  The
\* children return NotFound.
\* ------------------------------------------------------------------------
MaxSplitDepth == 13
MaxSplitChildren == 5

\* the key of an activation at depth d
DepthPath(d) == [i \in 1..d |-> 1]

InitSplit ==
    /\ strategy = 3
    /\ target = initial
    /\ discs = 4
    /\ node_limit = DefaultNodeLimit
    /\ table_limit = DefaultTableLimit
    /\ leafnode = {}
    /\ \E d \in 0..MaxSplitDepth, n \in 1..MaxSplitChildren :
          par_acts = [q \in {DepthPath(d)} |->
                        [Act(initial, FALSE) EXCEPT
                            !.pc = "count",
                            !.children = [k \in 1..n |-> [board |-> initial, from_pass |-> FALSE]]]]
    /\ visited = {}
    /\ table_count = 0
    /\ stop = 0
    /\ OutInit
    /\ DfsIdle
    /\ GbIdle
    /\ BfsIdle
    /\ BtIdle
    /\ RfIdle
    /\ AuxIdle

SplitFrame ==
    UNCHANGED <<btVars, rfVars, inVars, dfsVars, outVars, visited, table_count, stop,
                gbVars, bfsVars, auxVars>>

\* `if should_split(depth, children.len())` and the first call of either branch
SplitChoose(a) ==
    /\ Running(a, "count")
    /\ par_acts' = StartChildren(par_acts, a, par_acts[a].children)
    /\ SplitFrame

\* a child returns NotFound
SplitReturn(a) ==
    /\ Running(a, "enter")
    /\ par_acts' = ParReturn(par_acts, a, "NotFound").acts
    /\ SplitFrame

\* the serial loop goes on to its next child
SplitSerialNext(a) ==
    /\ Running(a, "serial_check")
    /\ par_acts[a].idx < Len(par_acts[a].children)
    /\ par_acts' = CallChild(par_acts, a, par_acts[a].idx + 1)
    /\ SplitFrame

NextSplit ==
    \/ \E a \in DOMAIN par_acts : SplitChoose(a)
    \/ \E a \in DOMAIN par_acts : SplitReturn(a)
    \/ \E a \in DOMAIN par_acts : SplitSerialNext(a)

SpecSplit == InitSplit /\ [][NextSplit]_vars

\* the threads of the pool run on: a step that can be taken is taken
ParLiveTargets == { Board({19, 35}, {26, 27, 28, 29, 36}), Board({36}, {19, 26, 27, 28, 35}) }
InitParLive == InitPar /\ target \in ParLiveTargets
\* the steps of NextPar in two groups: ParCount and ParSerialCheck list or
\* call children, the others only read and write the shared words
ParShort ==
    \/ \E a \in DOMAIN par_acts : ParEnter(a)
    \/ \E a \in DOMAIN par_acts : ParLeafCas(a)
    \/ \E a \in DOMAIN par_acts : ParTable(a)
    \/ \E a \in DOMAIN par_acts : ParVisit(a)
    \/ \E a \in DOMAIN par_acts : ParCap(a)
    \/ \E a \in DOMAIN par_acts : ParCapCas(a)
    \/ \E a \in DOMAIN par_acts : ParStoreFound(a)
    \/ \E a \in DOMAIN par_acts : ParStopFound(a)
    \/ \E a \in DOMAIN par_acts : ParLoadBest(a)
    \/ \E a \in DOMAIN par_acts : ParStoreUnknown(a)
    \/ \E a \in DOMAIN par_acts : ParJoin(a)
    \/ ParDone
ParLong ==
    \/ \E a \in DOMAIN par_acts : ParCount(a)
    \/ \E a \in DOMAIN par_acts : ParSerialCheck(a)
\* the guards of ParCount and ParSerialCheck
ParLongReady ==
    \E a \in DOMAIN par_acts :
        \/ Running(a, "count") /\ node_count + 1 <= node_limit
        \/ Running(a, "serial_check")
\* weak fairness of ParLong, with its enabling condition written out
ParLongFair == []<>(~ParLongReady) \/ []<><<ParLong>>_vars
SpecParLive == InitParLive /\ [][NextPar]_vars /\ WF_vars(ParShort) /\ ParLongFair

\* ------------------------------------------------------------------------
\* lib/search_fwd_par.rs : the forward table of strategy 4
\* ------------------------------------------------------------------------
BoardOf(x) == Board(x[1], x[2])
OnBoard(x, y) == 0 <= x /\ x < 8 /\ 0 <= y /\ y < 8

\* one direction of get_stable_discs: the square after the run of n occupied
\* squares, and the neighbour on the other side, both belong to the target
CanFlipAlong(x, y, dx, dy, n, t_occupied) ==
    /\ OnBoard(x + ((n + 1) * dx), y + ((n + 1) * dy))
    /\ (((y + ((n + 1) * dy)) * 8) + (x + ((n + 1) * dx))) \in t_occupied
    /\ OnBoard(x - dx, y - dy)
    /\ (((y - dy) * 8) + (x - dx)) \in t_occupied

can_flip(index, occupied, t_occupied) ==
    \E d \in 1..8 :
        CanFlipAlong(index % 8, index \div 8, DXYS[d][1], DXYS[d][2],
                     LineLen((index % 8) + DXYS[d][1], (index \div 8) + DXYS[d][2],
                             DXYS[d][1], DXYS[d][2], occupied),
                     t_occupied)

get_stable_discs(occupied, t_occupied) ==
    { index \in occupied : ~can_flip(index, occupied, t_occupied) }

StableAgree(b, t, stable) ==
    \/ (b[1] \cap stable = t[1] \cap stable /\ b[2] \cap stable = t[2] \cap stable)
    \/ (b[1] \cap stable = t[2] \cap stable /\ b[2] \cap stable = t[1] \cap stable)

check_fwd_sub(b, t) ==
    /\ (b[1] \cup b[2]) \subseteq (t[1] \cup t[2])
    /\ StableAgree(b, t, get_stable_discs(b[1] \cup b[2], t[1] \cup t[2]))

check_fwd(b, targets) == \E t \in targets : check_fwd_sub(b, t)

\* `target`: the board and its seven images
TargetSymmetries(b) == {b} \cup { board_symmetry(BoardOf(b), i) : i \in 1..7 }

FwdMoved(b, idx, flipped) == << Xor(b[2], flipped), Xor(b[1], flipped \cup {idx}) >>

\* the canonical board, and the board after a pass when its side cannot move
FwdWithPass(uni, targets) ==
    IF get_moves(uni[1], uni[2]) = {} /\ check_fwd(<<uni[2], uni[1]>>, targets)
    THEN {uni, unique(Board(uni[2], uni[1]))}
    ELSE {uni}

FwdInsert(next, targets) ==
    IF check_fwd(next, targets) THEN FwdWithPass(unique(BoardOf(next)), targets) ELSE {}

FwdLevel(ans, targets) ==
    UNION { UNION { FwdInsert(FwdMoved(b, idx, flip(idx, b[1], b[2])), targets) :
                    idx \in get_moves(b[1], b[2]) } : b \in ans }

RECURSIVE FwdLevels(_, _, _, _)
FwdLevels(ans, i, d, targets) ==
    IF i >= d THEN ans ELSE FwdLevels(FwdLevel(ans, targets), i + 1, d, targets)

make_fwd_table(b, d) ==
    FwdLevels({<<initial.player, initial.opponent>>}, 4, d, TargetSymmetries(b))

\* ------------------------------------------------------------------------
\* Strategy 4: retrospective_search_parallel1
\* ------------------------------------------------------------------------
is_leaf(x, leaves, d) == d = count_ones(x[1] \cup x[2]) /\ x \in leaves

\* prev_states: each predecessor, followed by its pass twin
RECURSIVE WithPassTwins(_)
WithPassTwins(preds) ==
    IF preds = << >> THEN << >>
    ELSE (IF get_moves(preds[1].opponent, preds[1].player) = {}
          THEN << <<preds[1].player, preds[1].opponent>>,
                  <<preds[1].opponent, preds[1].player>> >>
          ELSE << <<preds[1].player, preds[1].opponent>> >>)
         \o WithPassTwins(Tail(preds))

prev_states(b) == WithPassTwins(PredsOf(BoardOf(b), b[2] \ CENTER_MASK))

\* the order of the skip list: h first, then the pair
PqLt(x, y) ==
    \/ HLess(x.h, y.h)
    \/ (~HLess(y.h, x.h) /\ PairLt(x.b, y.b))
FrontOf(S) == (CHOOSE x \in S : \A y \in S \ {x} : PqLt(x, y)).b
front(q) == FrontOf({ [h |-> h_function(BoardOf(x)), b |-> x] : x \in q })

\* `starts`: the board, and the board after a pass when the other side cannot move
Starts(board) ==
    IF get_moves(board.opponent, board.player) = {}
    THEN {unique(board), unique(Board(board.opponent, board.player))}
    ELSE {unique(board)}

\* the value returned after the pool is joined
GbfsVerdictNoExhaustion(has_found, is_notfound) ==
    IF has_found THEN "Found" ELSE "Unknown"
GbfsVerdict(has_found, is_notfound) ==
    IF has_found THEN "Found" ELSE IF is_notfound THEN "NotFound" ELSE "Unknown"

Worker(pc) == [pc |-> pc, node |-> << >>, succs |-> << >>, si |-> 0, cur |-> << >>]

InitGbfs ==
    /\ discs \in GbDiscSettings
    /\ target \in GbTargets
    /\ leafnode = make_fwd_table(<<target.player, target.opponent>>, discs)
    /\ strategy = 4
    /\ node_limit \in GbNodeLimits
    /\ table_limit = 0
    /\ workers = [w \in 1..NumWorkers |-> Worker("loop")]
    /\ pq = Starts(target)
    /\ visited = Starts(target)
    /\ visited_count = Cardinality(Starts(target))
    /\ done = FALSE
    /\ inflight = 0
    /\ notfound = FALSE
    /\ found = FALSE
    /\ par_acts = << >>
    /\ table_count = 0
    /\ stop = 0
    /\ OutInit
    /\ DfsIdle
    /\ BtIdle
    /\ RfIdle
    /\ AuxIdle
    /\ BfsIdle

Working(w, pc) == strategy = 4 /\ result = "none" /\ workers[w].pc = pc
Go(w, pc) == [workers EXCEPT ![w].pc = pc]
GbFrame == UNCHANGED <<btVars, rfVars, auxVars, inVars, dfsVars, outVars, par_acts, table_count, stop, bfsVars>>
GbFrameCap == UNCHANGED <<btVars, rfVars, auxVars, inVars, dfsVars, retval, node_count, result, leaf_hit, par_acts, table_count, stop, bfsVars>>

\* `while !done.load(..)`
GbLoop(w) ==
    /\ Working(w, "loop")
    /\ workers' = Go(w, IF done THEN "exit" ELSE "limit")
    /\ UNCHANGED <<pq, visited, visited_count, done, inflight, notfound, found>>
    /\ GbFrame

\* `if visited_count.load(..) >= node_limit`
GbLimit(w) ==
    /\ Working(w, "limit")
    /\ workers' = Go(w, IF visited_count >= node_limit THEN "cap_store" ELSE "front")
    /\ cap_seen' = (cap_seen \/ visited_count >= node_limit)
    /\ UNCHANGED <<pq, visited, visited_count, done, inflight, notfound, found>>
    /\ GbFrameCap

\* `done.store(true, ..); break`, of the loop or of the expansion
GbCapStore(w) ==
    /\ strategy = 4 /\ result = "none" /\ workers[w].pc \in {"cap_store", "cap_store_in"}
    /\ done' = TRUE
    /\ workers' = Go(w, IF workers[w].pc = "cap_store" THEN "exit" ELSE "dec")
    /\ UNCHANGED <<pq, visited, visited_count, inflight, notfound, found>>
    /\ GbFrame

\* `match pq.front()`
GbFront(w) ==
    /\ Working(w, "front")
    /\ workers' = IF pq = {} THEN Go(w, "empty1")
                  ELSE [workers EXCEPT ![w].pc = "remove", ![w].node = front(pq)]
    /\ UNCHANGED <<pq, visited, visited_count, done, inflight, notfound, found>>
    /\ GbFrame

\* `if inflight.load(..) == 0`, with the sleep of either branch
GbEmpty1(w) ==
    /\ Working(w, "empty1")
    /\ workers' = Go(w, IF inflight = 0 THEN "empty2" ELSE "loop")
    /\ UNCHANGED <<pq, visited, visited_count, done, inflight, notfound, found>>
    /\ GbFrame

\* `pq.front().is_none()` of the second look
GbEmpty2(w) ==
    /\ Working(w, "empty2")
    /\ workers' = Go(w, IF pq = {} THEN "empty3" ELSE "loop")
    /\ UNCHANGED <<pq, visited, visited_count, done, inflight, notfound, found>>
    /\ GbFrame

\* `inflight.load(..) == 0` of the second look
GbEmpty3(w) ==
    /\ Working(w, "empty3")
    /\ workers' = Go(w, IF inflight = 0 THEN "nf_cas" ELSE "loop")
    /\ UNCHANGED <<pq, visited, visited_count, done, inflight, notfound, found>>
    /\ GbFrame

\* `done.compare_exchange(false, true, ..)` of the exhausted search; break
GbNfCas(w) ==
    /\ Working(w, "nf_cas")
    /\ done' = TRUE
    /\ workers' = Go(w, IF done THEN "exit" ELSE "nf_store")
    /\ UNCHANGED <<pq, visited, visited_count, inflight, notfound, found>>
    /\ GbFrame

\* `notfound.store(true, ..)`
GbNfStore(w) ==
    /\ Working(w, "nf_store")
    /\ notfound' = TRUE
    /\ workers' = Go(w, "exit")
    /\ UNCHANGED <<pq, visited, visited_count, done, inflight, found>>
    /\ GbFrame

\* `if !entry.remove() { continue; }`
GbRemove(w) ==
    /\ Working(w, "remove")
    /\ pq' = pq \ {workers[w].node}
    /\ workers' = Go(w, IF workers[w].node \in pq THEN "inc" ELSE "loop")
    /\ UNCHANGED <<visited, visited_count, done, inflight, notfound, found>>
    /\ GbFrame

\* what follows the count of the node in flight: the leaf test of a node of
\* D discs, else check_lp (an LP solver: either answer) and the expansion
AfterInc(w, node, lp) ==
    IF count_ones(node[1] \cup node[2]) = discs
    THEN Go(w, IF is_leaf(node, leafnode, discs) THEN "found_cas" ELSE "dec")
    ELSE IF ~lp THEN Go(w, "dec")
    ELSE [workers EXCEPT ![w].pc = "succ", ![w].succs = prev_states(node), ![w].si = 1]

\* `inflight.fetch_add(1, ..)`
GbInc(w) ==
    /\ Working(w, "inc")
    /\ inflight' = inflight + 1
    /\ \E lp \in BOOLEAN : workers' = AfterInc(w, workers[w].node, lp)
    /\ leaf_hit' = (leaf_hit \/ is_leaf(workers[w].node, leafnode, discs))
    /\ UNCHANGED <<pq, visited, visited_count, done, notfound, found>>
    /\ UNCHANGED <<btVars, rfVars, auxVars, inVars, dfsVars, retval, node_count, result, cap_seen, par_acts, table_count, stop, bfsVars>>

\* `done.compare_exchange(false, true, ..)` of a leaf; the winner pushes it; break
GbFoundCas(w) ==
    /\ Working(w, "found_cas")
    /\ done' = TRUE
    /\ found' = (found \/ ~done)
    /\ workers' = Go(w, "exit")
    /\ UNCHANGED <<pq, visited, visited_count, inflight, notfound>>
    /\ GbFrame

\* one round of `for s in succs`: `done.load(..)`, the shape filters, unique
AfterFilter(w, s, filter) ==
    IF filter = "true" THEN [workers EXCEPT ![w].pc = "contains", ![w].cur = unique(BoardOf(s))]
    ELSE [workers EXCEPT ![w].si = @ + 1]

GbSucc(w) ==
    /\ Working(w, "succ")
    /\ IF workers[w].si > Len(workers[w].succs) \/ done
       THEN workers' = Go(w, "dec") /\ UNCHANGED result
       ELSE IF Filtered(BoardOf(workers[w].succs[workers[w].si])) = "panic"
       THEN result' = "Panic" /\ UNCHANGED workers
       ELSE /\ workers' = AfterFilter(w, workers[w].succs[workers[w].si],
                                      Filtered(BoardOf(workers[w].succs[workers[w].si])))
            /\ UNCHANGED result
    /\ UNCHANGED <<pq, visited, visited_count, done, inflight, notfound, found>>
    /\ UNCHANGED <<btVars, rfVars, auxVars, inVars, dfsVars, retval, node_count, cap_seen, leaf_hit, par_acts, table_count, stop, bfsVars>>

\* `let already = visited.contains(&succ)`
GbContains(w) ==
    /\ Working(w, "contains")
    /\ workers' = IF workers[w].cur \in visited THEN [workers EXCEPT ![w].pc = "succ", ![w].si = @ + 1]
                  ELSE Go(w, "insert")
    /\ UNCHANGED <<pq, visited, visited_count, done, inflight, notfound, found>>
    /\ GbFrame

\* `if visited.insert(succ)`
GbInsert(w) ==
    /\ Working(w, "insert")
    /\ visited' = visited \cup {workers[w].cur}
    /\ workers' = IF workers[w].cur \in visited THEN [workers EXCEPT ![w].pc = "succ", ![w].si = @ + 1]
                  ELSE Go(w, "count")
    /\ UNCHANGED <<pq, visited_count, done, inflight, notfound, found>>
    /\ UNCHANGED <<btVars, rfVars, auxVars, inVars, dfsVars, outVars, par_acts, table_count, stop, bfsVars>>

\* `let new_count = visited_count.fetch_add(1, ..) + 1; if new_count > node_limit`
GbCount(w) ==
    /\ Working(w, "count")
    /\ visited_count' = visited_count + 1
    /\ workers' = Go(w, IF visited_count + 1 > node_limit THEN "cap_store_in" ELSE "push")
    /\ cap_seen' = (cap_seen \/ visited_count + 1 > node_limit)
    /\ UNCHANGED <<pq, visited, done, inflight, notfound, found>>
    /\ GbFrameCap

\* `pq.insert((h, succ))`
GbPush(w) ==
    /\ Working(w, "push")
    /\ pq' = pq \cup {workers[w].cur}
    /\ workers' = [workers EXCEPT ![w].pc = "succ", ![w].si = @ + 1]
    /\ UNCHANGED <<visited, visited_count, done, inflight, notfound, found>>
    /\ GbFrame

\* a variant that leaves the node counted as in flight
GbDecKeeps(w) ==
    /\ Working(w, "dec")
    /\ workers' = Go(w, "loop")
    /\ UNCHANGED <<pq, visited, visited_count, done, inflight, notfound, found>>
    /\ GbFrame

\* `inflight.fetch_sub(1, ..)`
GbDec(w) ==
    /\ Working(w, "dec")
    /\ inflight' = inflight - 1
    /\ workers' = Go(w, "loop")
    /\ UNCHANGED <<pq, visited, visited_count, done, notfound, found>>
    /\ GbFrame

\* the scope ends when every worker has left its loop; the driver records
\* the verdict
GbJoin ==
    /\ strategy = 4
    /\ result = "none"
    /\ \A w \in DOMAIN workers : workers[w].pc = "exit"
    /\ retval' = GbfsVerdict(found, notfound)
    /\ result' = GbfsVerdict(found, notfound)
    /\ UNCHANGED <<node_count, cap_seen, leaf_hit, parVars, gbVars>>
    /\ UNCHANGED <<btVars, rfVars, auxVars, inVars, dfsVars, bfsVars>>

NextGbfs ==
    \/ \E w \in DOMAIN workers : GbLoop(w)
    \/ \E w \in DOMAIN workers : GbLimit(w)
    \/ \E w \in DOMAIN workers : GbCapStore(w)
    \/ \E w \in DOMAIN workers : GbFront(w)
    \/ \E w \in DOMAIN workers : GbEmpty1(w)
    \/ \E w \in DOMAIN workers : GbEmpty2(w)
    \/ \E w \in DOMAIN workers : GbEmpty3(w)
    \/ \E w \in DOMAIN workers : GbNfCas(w)
    \/ \E w \in DOMAIN workers : GbNfStore(w)
    \/ \E w \in DOMAIN workers : GbRemove(w)
    \/ \E w \in DOMAIN workers : GbInc(w)
    \/ \E w \in DOMAIN workers : GbFoundCas(w)
    \/ \E w \in DOMAIN workers : GbSucc(w)
    \/ \E w \in DOMAIN workers : GbContains(w)
    \/ \E w \in DOMAIN workers : GbInsert(w)
    \/ \E w \in DOMAIN workers : GbCount(w)
    \/ \E w \in DOMAIN workers : GbPush(w)
    \/ \E w \in DOMAIN workers : GbDec(w)
    \/ GbJoin

SpecGbfs == InitGbfs /\ [][NextGbfs]_vars

\* ------------------------------------------------------------------------
\* Strategy 5: lib/bfs_search.rs, the block-based level search
\* ------------------------------------------------------------------------
\* r_{k}.bin and b_{k}_{i}.bin of tmp_dir
FileR(k) == <<"r", k, 0>>
FileB(k, i) == <<"b", k, i>>
WriteFile(fs, name, recs) ==
    [n \in DOMAIN fs \cup {name} |-> IF n = name THEN recs ELSE fs[n]]
RemoveFiles(fs, names) == [n \in DOMAIN fs \ names |-> fs[n]]

Max2(a, b) == IF a > b THEN a ELSE b
\* `min(5000000, max(1024, all_count / num_threads / 10))`
par_block_size(all_count, num_threads) ==
    Min2(5000000, Max2(1024, (all_count \div num_threads) \div 10))
BlockCount(all_count, bs) == ((all_count + bs) - 1) \div bs

\* process_board: the filters on one predecessor, "panic" when
\* check_seg3_more aborts
PrevOutcome(prev) ==
    IF ~is_connected(prev.player \cup prev.opponent) THEN "false"
    ELSE IF ~check_seg3(prev.player \cup prev.opponent) THEN "false"
    ELSE seg3_more_outcome(prev.player, prev.opponent)

\* the entries of prev_boards that one surviving predecessor adds
PrevEntries(prev) ==
    IF get_moves(prev.opponent, prev.player) = {}
    THEN {unique(prev), unique(Board(prev.opponent, prev.player))}
    ELSE {unique(prev)}

\* process_board: every predecessor of the record with what the filters say
process_board(b) ==
    { [prev |-> p, outcome |-> PrevOutcome(p)] :
      p \in Range(PredsOf(BoardOf(b), b[2] \ CENTER_MASK)) }

\* the records of block i: `nrecs = min(block_size, (len - offset) / 16)`
BlockRecords(recs, bs, i) == SubSeq(recs, (bs * i) + 1, Min2(Len(recs), bs * (i + 1)))
BlockScan(recs) == UNION { process_board(recs[j]) : j \in DOMAIN recs }
\* prev_boards at the end of the block
BlockPreds(scan) == UNION { PrevEntries(r.prev) : r \in { x \in scan : x.outcome = "true" } }
BlockPanics(scan) == \E r \in scan : r.outcome = "panic"

\* process_bfs_block: b_{k}_{i}.bin is written only for a non-empty set
AfterBlock(fs, k, i, preds) ==
    IF preds = {} THEN fs ELSE WriteFile(fs, FileB(k, i), SortedSeq(preds))

\* the order of the min-heap of ((p, o), file_idx)
EntryLt(e, f) == PairLt(e[1], f[1]) \/ (e[1] = f[1] /\ e[2] < f[2])

\* `if last.map_or(true, |x| x != (p, o))`: the record is written
KeepsPairAlways(last, key) == TRUE
KeepsPair(last, key) == last = << >> \/ last[1] # key

\* `while let Some(Reverse(((p, o), idx))) = heap.pop()`: the least entry is
\* written unless it repeats the last one, and the next record of its file
\* is pushed; pos[idx] counts the records read from file idx
RECURSIVE BinsLoop(_, _, _, _, _)
BinsLoop(ins, heap, pos, last, out) ==
    IF heap = {} THEN out
    ELSE LET top == CHOOSE e \in heap : \A f \in heap \ {e} : EntryLt(e, f)
             idx == top[2]
             rest == heap \ {top}
         IN  BinsLoop(ins,
                      IF pos[idx] < Len(ins[idx])
                      THEN rest \cup { << ins[idx][pos[idx] + 1], idx >> } ELSE rest,
                      [pos EXCEPT ![idx] = @ + 1],
                      << top[1] >>,
                      IF KeepsPair(last, top[1]) THEN Append(out, top[1]) ELSE out)

\* merge_sorted_bins on inputs that exist: the first record of each file
\* goes on the heap, then the loop
merge_sorted_bins(fs, inputs) ==
    BinsLoop([i \in DOMAIN inputs |-> fs[inputs[i]]],
             { << fs[inputs[i]][1], i >> : i \in { j \in DOMAIN inputs : fs[inputs[j]] # << >> } },
             [i \in DOMAIN inputs |-> IF fs[inputs[i]] # << >> THEN 1 ELSE 0],
             << >>, << >>)

\* `inputs` of merge_files: b_{k}_{0}, b_{k}_{1}, ... in this order
InputSeq(inputs) == [j \in 1..Cardinality(inputs) |-> CHOOSE n \in inputs : n[3] = j - 1]
BlockFiles(k, block_count) == { FileB(k, i) : i \in 0..(block_count - 1) }
\* merge_files fails on no input and on an input that cannot be opened
MergeFails(fs, inputs) == inputs = {} \/ \E n \in inputs : n \notin DOMAIN fs
merge_files(fs, k, inputs) ==
    WriteFile(RemoveFiles(fs, inputs), FileR(k), merge_sorted_bins(fs, InputSeq(inputs)))

\* `boards`: the target, and the target after a pass
StartRecords(board) ==
    IF get_moves(board.opponent, board.player) = {}
    THEN << <<board.player, board.opponent>>, <<board.opponent, board.player>> >>
    ELSE << <<board.player, board.opponent>> >>

InitBfs ==
    /\ discs \in DiscSettings
    /\ leafnode = LeafCache(discs)
    /\ target \in Targets
    /\ strategy = 5
    /\ node_limit = 0
    /\ table_limit = 0
    /\ bfs_mode \in {"par", "seq"}
    /\ block_size \in IF bfs_mode = "par" THEN {0} ELSE BlockSizes
    /\ bfs_pc = "start"
    /\ files = << >>
    /\ bfs_level = 0
    /\ bfs_blocks = {}
    /\ OutInit
    /\ DfsIdle
    /\ ParIdle
    /\ GbIdle
    /\ BtIdle
    /\ RfIdle
    /\ AuxIdle

BfsAt(pc) == strategy = 5 /\ bfs_pc = pc /\ result = "none"
LevelInput == files[FileR(bfs_level + 1)]
\* the block size of the level: computed by process_bfs_par, cfg.block_size
\* in process_bfs_seq
LevelBlockSize ==
    IF bfs_mode = "par" THEN par_block_size(Len(LevelInput), BfsJobs) ELSE block_size
LevelBlockCount == BlockCount(Len(LevelInput), LevelBlockSize)
\* the block numbers of the level: `0..block_count`
BlockIndexes ==
    IF strategy = 5 /\ bfs_pc = "blocks" THEN 0..(LevelBlockCount - 1) ELSE {}
BfsFrame == UNCHANGED <<btVars, rfVars, auxVars, inVars, dfsVars, parVars, gbVars, bfs_mode, block_size>>

\* the entry: a target of at most D discs is looked up, else r_{n}.bin is written
BfsStart ==
    /\ BfsAt("start")
    /\ IF popcount(target) <= discs
       THEN /\ result' = (IF unique(target) \in leafnode THEN "Found" ELSE "NotFound")
            /\ retval' = result'
            /\ leaf_hit' = (unique(target) \in leafnode)
            /\ bfs_pc' = "done"
            /\ UNCHANGED <<files, bfs_level>>
       ELSE /\ files' = WriteFile(files, FileR(popcount(target)), StartRecords(target))
            /\ bfs_level' = popcount(target) - 1
            /\ bfs_pc' = "blocks"
            /\ UNCHANGED <<result, retval, leaf_hit>>
    /\ UNCHANGED <<node_count, cap_seen, bfs_blocks>>
    /\ BfsFrame

\* the end of process_bfs_block: a panic ends the program, else the file of
\* the block is written
BlockDone(i, scan) ==
    IF BlockPanics(scan)
    THEN result' = "Panic" /\ UNCHANGED <<files, bfs_blocks>>
    ELSE /\ files' = AfterBlock(files, bfs_level, i, BlockPreds(scan))
         /\ bfs_blocks' = bfs_blocks \cup {i}
         /\ UNCHANGED result

\* process_bfs_block of block i; process_bfs_seq takes the blocks in order,
\* the workers of process_bfs_par finish them in any order
BfsBlock(i) ==
    /\ BfsAt("blocks")
    /\ i \notin bfs_blocks
    /\ bfs_mode = "seq" => i = Cardinality(bfs_blocks)
    /\ BlockDone(i, BlockScan(BlockRecords(LevelInput, LevelBlockSize, i)))
    /\ UNCHANGED <<retval, node_count, cap_seen, leaf_hit, bfs_pc, bfs_level>>
    /\ BfsFrame

\* merge_files after the blocks of the level; an error ends the run with no
\* verdict, an empty r_{k}.bin ends it with NotFound
BfsMerge ==
    /\ BfsAt("blocks")
    /\ bfs_blocks = BlockIndexes
    /\ IF MergeFails(files, BlockFiles(bfs_level, LevelBlockCount))
       THEN /\ result' = "IoError"
            /\ bfs_pc' = "done"
            /\ UNCHANGED <<retval, files, bfs_level, bfs_blocks>>
       ELSE /\ files' = merge_files(files, bfs_level, BlockFiles(bfs_level, LevelBlockCount))
            /\ IF Len(files'[FileR(bfs_level)]) = 0
               THEN /\ result' = "NotFound" /\ retval' = "NotFound" /\ bfs_pc' = "done"
                    /\ UNCHANGED <<bfs_level, bfs_blocks>>
               ELSE IF bfs_level = discs
               THEN /\ bfs_pc' = "scan"
                    /\ UNCHANGED <<result, retval, bfs_level, bfs_blocks>>
               ELSE /\ bfs_level' = bfs_level - 1
                    /\ bfs_blocks' = {}
                    /\ UNCHANGED <<result, retval, bfs_pc>>
    /\ UNCHANGED <<node_count, cap_seen, leaf_hit>>
    /\ BfsFrame

\* the records of r_{D}.bin are tested against the leaf set
BfsScan ==
    /\ BfsAt("scan")
    /\ result' = (IF \E j \in DOMAIN files[FileR(discs)] : files[FileR(discs)][j] \in leafnode
                  THEN "Found" ELSE "NotFound")
    /\ retval' = result'
    /\ leaf_hit' = (result' = "Found")
    /\ bfs_pc' = "done"
    /\ UNCHANGED <<node_count, cap_seen, files, bfs_level, bfs_blocks>>
    /\ BfsFrame

NextBfs ==
    \/ BfsStart
    \/ \E i \in BlockIndexes : BfsBlock(i)
    \/ BfsMerge
    \/ BfsScan

SpecBfs == InitBfs /\ [][NextBfs]_vars

\* ------------------------------------------------------------------------
\* The five strategies together
\* ------------------------------------------------------------------------
InitSearch == InitDfs \/ InitPar \/ InitGbfs \/ InitBfs
NextSearch == NextDfs \/ NextPar \/ NextGbfs \/ NextBfs
SpecSearch == InitSearch /\ [][NextSearch]_vars

\* ------------------------------------------------------------------------
\* search/reverse_common.rs : the drivers run_dfs, run_move_ordering,
\* run_parallel, run_parallel1 and run_bfs_par over the boards of the input,
\* one program after the other on the same input
\* ------------------------------------------------------------------------
validate_board(board) ==
    IF board.player \cap board.opponent # {} THEN "Overlap"
    ELSE IF ((board.player \cup board.opponent) \cap CENTER_MASK) # CENTER_MASK
    THEN "MissingCenter"
    ELSE "Ok"

\* make_fwd_table starts with board_symmetry(i) for i in 1..8, each of which
\* ends in board_check: FALSE when one of them panics
FwdTableStarts(board) ==
    \A i \in 1..7 : board_check(board_symmetry(board, i))

\* the leaf set a driver hands to the search of board b
LeafSetOf(s, b) ==
    IF s = 4 THEN make_fwd_table(<<b.player, b.opponent>>, discs) ELSE LeafCache(discs)

\* the state in which the search of strategy s on board b starts
StartWith(s, b, pc, level) ==
    /\ strategy' = s
    /\ target' = b
    /\ leafnode' = LeafSetOf(s, b)
    /\ retval' = "none"
    /\ node_count' = 0
    /\ result' = "none"
    /\ cap_seen' = FALSE
    /\ leaf_hit' = FALSE
    /\ stack' = IF s \in {1, 2} THEN << Frame(b, FALSE) >> ELSE << >>
    /\ retrospective_searched' =
          IF s \in {1, 2}
          THEN BtableClear(IF strategy = s THEN retrospective_searched
                           ELSE BtableNew(DfsTableSize, DfsCacheSize))
          ELSE BtableNew({}, 0)
    /\ passed_up' = 0
    /\ par_acts' = IF s = 3 THEN [q \in {<< >>} |-> Act(b, FALSE)] ELSE << >>
    /\ visited' = IF s = 4 THEN Starts(b) ELSE {}
    /\ table_count' = 0
    /\ stop' = 0
    /\ workers' = IF s = 4 THEN [w \in 1..NumWorkers |-> Worker("loop")] ELSE << >>
    /\ pq' = IF s = 4 THEN Starts(b) ELSE {}
    /\ visited_count' = IF s = 4 THEN Cardinality(Starts(b)) ELSE 0
    /\ done' = FALSE
    /\ inflight' = 0
    /\ notfound' = FALSE
    /\ found' = FALSE
    /\ bfs_pc' = pc
    /\ bfs_level' = level
    /\ bfs_blocks' = {}
    /\ UNCHANGED <<discs, node_limit, table_limit, bfs_mode, block_size>>

StartSearch(s, b) ==
    /\ StartWith(s, b, IF s = 5 THEN "start" ELSE "idle", 0)
    /\ UNCHANGED files

\* run_bfs_par with cfg.resume: tmp_dir holds r_{n}.bin with the canonical
\* form of b, n is read from the file name, and the levels n-1 .. D follow;
\* with n <= D the loop is empty and r_{D}.bin is opened
StartResume(b) ==
    /\ StartWith(5, b,
                 IF popcount(b) > discs THEN "blocks"
                 ELSE IF popcount(b) = discs THEN "scan" ELSE "open",
                 IF popcount(b) > discs THEN popcount(b) - 1 ELSE 0)
    /\ files' = WriteFile(<< >>, FileR(popcount(b)), << unique(b) >>)

\* the settings of a run and the programs it starts
RunSetting(rs, bs, d, n, t) ==
    /\ runs = rs
    /\ input = bs
    /\ boards = bs
    /\ discs = d
    /\ node_limit = n
    /\ table_limit = t
    /\ bfs_mode = "par"
    /\ block_size = 0

\* boards that validate_board rejects: two discs on a square, an empty
\* centre square, both
InvalidBoards ==
    { Board({28, 35}, {27, 28, 36}), Board({28, 35}, {27}), Board({19, 28}, {19, 27}) }

\* the boards of the runs: positions of 5 to 7 discs around the centre
RunTargets ==
    { Board({35}, {18, 19, 20, 27, 28, 36}),
      Board({19, 35}, {26, 27, 28, 29, 36}),
      Board({36}, {19, 27, 28, 35}),
      Board({}, {19, 27, 28, 35, 36}),
      Board({18, 19}, {27, 28, 35, 36}) }

\* the runs of one program: a board alone, and an invalid board before the
\* opening position
RunLists ==
    { << b >> : b \in RunTargets \cup {initial} } \cup { << x, initial >> : x \in InvalidBoards }

\* a board twice in one input, and a board before and after another one
RepeatLists ==
    { << b, b >> : b \in { Board({36}, {19, 26, 27, 28, 35}), Board({18, 19}, {27, 28, 35, 36}) } }
    \cup { << Board({35}, {18, 19, 20, 27, 28, 36}), Board({36}, {19, 27, 28, 35}),
             Board({35}, {18, 19, 20, 27, 28, 36}) >>,
           << Board({36}, {19, 26, 27, 28, 35}), Board({19, 35}, {26, 27, 28, 29, 36}),
             Board({36}, {19, 26, 27, 28, 35}) >> }

\* the opening position with a lone stone in the corner A1
LoneCorner == Board(initial.player, initial.opponent \cup {0})

\* the boards searched with 4 discs as the depth of the leaf set
OpeningTargets ==
    { initial, LoneCorner, Board({35}, {18, 19, 20, 27, 28, 36}),
      Board({19, 20, 27, 28, 35, 36}, {}) }

\* the boards on which the five programs are compared: every position of
\* D discs with the fifth disc north or west of the centre, and two
\* positions of six discs
CmpBoards ==
    { b \in BoardsOn(GbRegion, 1) : popcount(b) = MaxD }
    \cup { Board({18, 19}, {27, 28, 35, 36}), Board({36}, {19, 26, 27, 28, 35}) }

\* the boards searched fresh and then resumed
ResumeTargets == RunTargets \cup OpeningTargets \cup { b \in BoardsOn(GbRegion, 2) : popcount(b) >= 5 }

RunInputs ==
    { [runs |-> << s >>, input |-> bs, discs |-> d, node_limit |-> n, table_limit |-> t] :
        s \in 1..5, bs \in RunLists, d \in {MaxD}, n \in {MaxGbNodeLimit, DefaultNodeLimit},
        t \in {MaxTableLimit} }
    \cup
    { [runs |-> << s >>, input |-> << b >>, discs |-> 4, node_limit |-> DefaultNodeLimit,
       table_limit |-> DefaultTableLimit] : s \in 1..5, b \in OpeningTargets }
    \cup
    { [runs |-> << 5, 6 >>, input |-> << b >>, discs |-> d, node_limit |-> DefaultNodeLimit,
       table_limit |-> DefaultTableLimit] : b \in ResumeTargets, d \in {4, MaxD} }
    \cup
    { [runs |-> << 1, 2, 3, 4, 5 >>, input |-> << b >>, discs |-> MaxD,
       node_limit |-> DefaultNodeLimit, table_limit |-> DefaultTableLimit] : b \in CmpBoards }

InitRun ==
    /\ run_pc = "next"
    /\ \E x \in RunInputs : RunSetting(x.runs, x.input, x.discs, x.node_limit, x.table_limit)
    /\ ng = << >>
    /\ ok = << >>
    /\ fwd_calls = {}
    /\ strategy = 0
    /\ target = NoBoard
    /\ leafnode = {}
    /\ files = << >>
    /\ bfs_pc = "idle"
    /\ bfs_level = 0
    /\ bfs_blocks = {}
    /\ OutInit
    /\ DfsIdle
    /\ ParIdle
    /\ GbIdle
    /\ BtIdle
    /\ RfIdle
    /\ SolverIdle
    /\ MergeIdle
    /\ LevelIdle
    /\ ProbeIdle

RunFrame == UNCHANGED <<btVars, rfVars, solver, mgVars, lvVars, probe, runs, input>>
SearchFrame == UNCHANGED searchVars

\* run_parallel1, `let leaf = make_fwd_table(..)` before validate_board: the
\* board_check of board_symmetry panics on a board that is not valid
RunFwdTable ==
    /\ run_pc = "next"
    /\ boards # << >>
    /\ Head(runs) = 4
    /\ fwd_calls' = fwd_calls \cup {Head(boards)}
    /\ IF FwdTableStarts(Head(boards))
       THEN run_pc' = "validate" /\ UNCHANGED result
       ELSE run_pc' = "aborted" /\ result' = "Panic"
    /\ UNCHANGED <<boards, ng, ok>>
    /\ UNCHANGED <<inVars, dfsVars, retval, node_count, cap_seen, leaf_hit, parVars, gbVars, bfsVars>>
    /\ RunFrame

\* `if validate_board(&board).is_err() { outputs.write_invalid(&line)?; continue; }`
RunInvalid ==
    /\ \/ run_pc = "validate"
       \/ (run_pc = "next" /\ boards # << >> /\ Head(runs) \notin {4, 6})
    /\ validate_board(Head(boards)) # "Ok"
    /\ ng' = Append(ng, Head(boards))
    /\ boards' = Tail(boards)
    /\ run_pc' = "next"
    /\ UNCHANGED <<ok, fwd_calls>>
    /\ SearchFrame
    /\ RunFrame

\* the call of the backward search on a valid board
RunSearch ==
    /\ \/ run_pc = "validate"
       \/ (run_pc = "next" /\ boards # << >> /\ Head(runs) \notin {4, 6})
    /\ validate_board(Head(boards)) = "Ok"
    /\ StartSearch(Head(runs), Head(boards))
    /\ run_pc' = "search"
    /\ UNCHANGED <<boards, ng, ok, fwd_calls>>
    /\ RunFrame

\* `outputs.write_result(result, &line)?`; a panic or an error of the search
\* ends the program
RunResult ==
    /\ run_pc = "search"
    /\ Head(runs) # 6
    /\ result # "none"
    /\ IF result \in {"Found", "NotFound", "Unknown"}
       THEN /\ ok' = Append(ok, [strategy |-> strategy, board |-> target,
                                 result |-> result, cap |-> cap_seen])
            /\ boards' = Tail(boards)
            /\ run_pc' = "next"
       ELSE /\ run_pc' = "aborted"
            /\ UNCHANGED <<ok, boards>>
    /\ UNCHANGED <<ng, fwd_calls>>
    /\ SearchFrame
    /\ RunFrame

\* `if cfg.resume { .. retrospective_search_bfs_par_resume(..)?; .. }`
RunResume ==
    /\ run_pc = "next"
    /\ boards # << >>
    /\ Head(runs) = 6
    /\ StartResume(Head(boards))
    /\ run_pc' = "search"
    /\ UNCHANGED <<boards, ng, ok, fwd_calls>>
    /\ RunFrame

\* `File::open(&tmp_dir.join(rfilename))?` of r_{D}.bin, which is not there
RunResumeOpen ==
    /\ run_pc = "search"
    /\ BfsAt("open")
    /\ result' = "IoError"
    /\ bfs_pc' = "done"
    /\ UNCHANGED <<ok, boards, ng, fwd_calls, run_pc>>
    /\ UNCHANGED <<inVars, dfsVars, retval, node_count, cap_seen, leaf_hit, parVars, gbVars,
                   files, bfs_level, bfs_blocks, bfs_mode, block_size>>
    /\ RunFrame

\* the value of the resumed search is dropped by `?;` and the program
\* returns outputs.flush(); an error ends the program
RunResumeDone ==
    /\ run_pc = "search"
    /\ Head(runs) = 6
    /\ result # "none"
    /\ run_pc' = IF result \in {"Found", "NotFound", "Unknown"} THEN "resumed" ELSE "aborted"
    /\ UNCHANGED <<ok, boards, ng, fwd_calls>>
    /\ SearchFrame
    /\ RunFrame

\* the loop over the boards ends; the next program reads the same input
RunEnd ==
    /\ run_pc = "next"
    /\ boards = << >>
    /\ runs # << >>
    /\ runs' = Tail(runs)
    /\ IF Tail(runs) = << >>
       THEN run_pc' = "end" /\ UNCHANGED boards
       ELSE run_pc' = "next" /\ boards' = input
    /\ UNCHANGED <<input, ng, ok, fwd_calls>>
    /\ SearchFrame
    /\ UNCHANGED <<btVars, rfVars, solver, mgVars, lvVars, probe>>

NextRun ==
    \/ RunFwdTable
    \/ RunInvalid
    \/ RunSearch
    \/ RunResult
    \/ RunResume
    \/ RunResumeOpen
    \/ RunResumeDone
    \/ RunEnd
    \/ NextSearch

SpecRun == InitRun /\ [][NextRun]_vars

\* the drivers run_dfs, run_move_ordering, run_parallel and run_bfs_par on
\* inputs that hold a board more than once
RepeatInputs ==
    { [runs |-> << s >>, input |-> bs, discs |-> MaxD, node_limit |-> n,
       table_limit |-> MaxTableLimit] :
        s \in {1, 2, 5}, bs \in RepeatLists, n \in {MaxGbNodeLimit, DefaultNodeLimit} }
    \cup
    { [runs |-> << 3 >>, input |-> << b, b >>, discs |-> MaxD, node_limit |-> n,
       table_limit |-> t] : b \in ParLiveTargets, n \in ParNodeLimits, t \in TableLimits }
    \cup
    { [runs |-> << s >>, input |-> << x, b, b >>, discs |-> 4, node_limit |-> DefaultNodeLimit,
       table_limit |-> DefaultTableLimit] :
        s \in {1, 2}, x \in InvalidBoards, b \in { Board({19, 20, 27, 28, 35, 36}, {}) } }

InitBoards ==
    /\ run_pc = "next"
    /\ \E x \in RepeatInputs : RunSetting(x.runs, x.input, x.discs, x.node_limit, x.table_limit)
    /\ ng = << >>
    /\ ok = << >>
    /\ fwd_calls = {}
    /\ strategy = 0
    /\ target = NoBoard
    /\ leafnode = {}
    /\ files = << >>
    /\ bfs_pc = "idle"
    /\ bfs_level = 0
    /\ bfs_blocks = {}
    /\ OutInit
    /\ DfsIdle
    /\ ParIdle
    /\ GbIdle
    /\ BtIdle
    /\ RfIdle
    /\ SolverIdle
    /\ MergeIdle
    /\ LevelIdle
    /\ ProbeIdle

NextBoards ==
    \/ RunInvalid
    \/ RunSearch
    \/ RunResult
    \/ RunEnd
    \/ NextDfs
    \/ NextPar
    \/ NextBfs

SpecBoards == InitBoards /\ [][NextBoards]_vars

\* ---------------------------------------------------------------------------
\* prunings/check_lp.rs, lib/solve_kissat.rs, main.rs : the filters that call
\* an external solver.  The solver's answer is its status, any of the values
\* the library can return.
\* ---------------------------------------------------------------------------

\* HighsModelStatus
LpStatuses ==
    { "NotSet", "LoadError", "ModelError", "PresolveError", "SolveError",
      "PostsolveError", "ModelEmpty", "Optimal", "Infeasible",
      "UnboundedOrInfeasible", "Unbounded", "ObjectiveBound", "ObjectiveTarget",
      "ReachedTimeLimit", "ReachedIterationLimit", "Unknown" }

\* the outcomes of Kissat::solve(): Ok(SolverResult) or Err
SatStatuses == { "Sat", "Unsat", "Interrupted", "Err" }

\* the statuses that are a failure of the solver or leave the question open
LpFailed ==
    { "NotSet", "LoadError", "ModelError", "PresolveError", "SolveError",
      "PostsolveError", "ReachedTimeLimit", "ReachedIterationLimit", "Unknown" }
SatFailed == { "Interrupted", "Err" }

\* check_lp.rs 180-194
check_feasibility(status) ==
    IF status \in { "Optimal", "ObjectiveTarget", "ObjectiveBound", "Unbounded" }
    THEN "Feasible"
    ELSE IF status \in { "Infeasible", "UnboundedOrInfeasible" }
    THEN "Infeasible"
    ELSE "Unknown"

\* check_lp.rs 379-384
check_lp(status) == check_feasibility(status) # "Infeasible"

\* solve_kissat.rs 57-64: Err returns false, then result == Sat
solve_by_kissat(status) ==
    IF status = "Err" THEN FALSE ELSE status = "Sat"

\* solve_kissat.rs 353-355: Ok(ans)
is_sat_ok(status) == solve_by_kissat(status)

\* the boards handed to the filters
SolverBoards == { b \in BoardsOn(GbRegion, 1) : popcount(b) \in 5..6 }

InitSolver ==
    /\ \E k \in {"lp", "sat"}, b \in SolverBoards :
          solver = [pc |-> "call", kind |-> k, board |-> b]
    /\ BtIdle
    /\ RfIdle
    /\ SearchIdle
    /\ RunIdle
    /\ MergeIdle
    /\ LevelIdle
    /\ ProbeIdle

SolverFrame == UNCHANGED <<btVars, rfVars, searchVars, runVars, mgVars, lvVars, probe>>

\* check_lp.rs 178 model.solve(), solve_kissat.rs 57 solver.solve()
SolverSolve(st) ==
    /\ solver.pc = "call"
    /\ st \in (IF solver.kind = "lp" THEN LpStatuses ELSE SatStatuses)
    /\ solver' = [pc |-> "solved", kind |-> solver.kind, board |-> solver.board,
                  status |-> st]
    /\ SolverFrame

\* the filter's return value
SolverFilter ==
    /\ solver.pc = "solved"
    /\ solver' = [pc |-> "filtered", kind |-> solver.kind, board |-> solver.board,
                  status |-> solver.status,
                  pass |-> IF solver.kind = "lp" THEN check_lp(solver.status)
                                                 ELSE is_sat_ok(solver.status)]
    /\ SolverFrame

\* par_search1.rs 211-213 `if !check_lp(..) { continue }`,
\* main.rs 795-797 `if !is_sat_ok(..).unwrap() { return false }`
SolverUse ==
    /\ solver.pc = "filtered"
    /\ solver' = [pc |-> IF solver.pass THEN "expanded" ELSE "pruned",
                  kind |-> solver.kind, board |-> solver.board,
                  status |-> solver.status, pass |-> solver.pass]
    /\ SolverFrame

NextSolver ==
    \/ \E st \in LpStatuses \cup SatStatuses : SolverSolve(st)
    \/ SolverFilter
    \/ SolverUse

SpecSolver == InitSolver /\ [][NextSolver]_vars


\* ---------------------------------------------------------------------------
\* lib/bfs_search.rs : merge_files on block files of a few records
\* ---------------------------------------------------------------------------
MaxMgFiles == 3

\* the records of the block files
MgPairs == { << {}, {1} >>, << {0}, {} >>, << {0}, {1} >> }

\* the level whose blocks are merged
MgLevel == 5
MgOut == FileR(MgLevel)

\* a tmp_dir in which each of the n block files is a sorted file or is missing
MgDirs(n) ==
    UNION { { [m \in { FileB(MgLevel, i) : i \in present } |-> SortedSeq(c[m[3]])] :
              c \in [present -> SUBSET MgPairs] } : present \in SUBSET (0..(n - 1)) }

InitMerge ==
    /\ mg_pc = [step |-> "start", i |-> 0]
    /\ \E n \in 0..MaxMgFiles :
          /\ mg_inputs = [j \in 1..n |-> FileB(MgLevel, j - 1)]
          /\ mg_files \in MgDirs(n)
    /\ BtIdle
    /\ RfIdle
    /\ SearchIdle
    /\ RunIdle
    /\ SolverIdle
    /\ LevelIdle
    /\ ProbeIdle

MergeFrame == UNCHANGED <<btVars, rfVars, searchVars, runVars, solver, lvVars, probe>>

\* merge_sorted_bins returns an error: no input, or an input that File::open
\* does not find; `?` leaves merge_files before any remove_file
MgFail ==
    /\ mg_pc.step = "start"
    /\ mg_inputs = << >> \/ \E j \in DOMAIN mg_inputs : mg_inputs[j] \notin DOMAIN mg_files
    /\ mg_pc' = [step |-> "error", i |-> 0]
    /\ UNCHANGED <<mg_files, mg_inputs>>
    /\ MergeFrame

\* merge_sorted_bins writes r_{k}.bin
MgMerge ==
    /\ mg_pc.step = "start"
    /\ mg_inputs # << >>
    /\ \A j \in DOMAIN mg_inputs : mg_inputs[j] \in DOMAIN mg_files
    /\ mg_files' = WriteFile(mg_files, MgOut, merge_sorted_bins(mg_files, mg_inputs))
    /\ mg_pc' = [step |-> "remove", i |-> 1]
    /\ UNCHANGED mg_inputs
    /\ MergeFrame

\* `for i in 0..inputs.len() { fs::remove_file(&inputs[i])?; }`
MgRemove ==
    /\ mg_pc.step = "remove"
    /\ mg_pc.i <= Len(mg_inputs)
    /\ mg_files' = RemoveFiles(mg_files, {mg_inputs[mg_pc.i]})
    /\ mg_pc' = [step |-> "remove", i |-> mg_pc.i + 1]
    /\ UNCHANGED mg_inputs
    /\ MergeFrame

\* Ok(count)
MgDone ==
    /\ mg_pc.step = "remove"
    /\ mg_pc.i > Len(mg_inputs)
    /\ mg_pc' = [step |-> "done", i |-> Len(mg_files[MgOut])]
    /\ UNCHANGED <<mg_files, mg_inputs>>
    /\ MergeFrame

NextMerge == MgFail \/ MgMerge \/ MgRemove \/ MgDone

SpecMerge == InitMerge /\ [][NextMerge]_vars


\* ---------------------------------------------------------------------------
\* lib/bfs_search.rs : process_bfs_par, one level with its worker threads.
\* r_{k+1}.bin is taken by its number of records; process_bfs_block ends
\* with Ok, with an I/O error, or with a panic inside process_board.
\* ---------------------------------------------------------------------------
MaxThreads == 3

\* all_count and num_threads: one block, several blocks of 1024 records,
\* and a file large enough for blocks of more than 1024 records
LevelSettings ==
    { << c, t >> : c \in {1, 1024, 1025, 2049}, t \in 1..MaxThreads }
    \cup { << 3073, 1 >>, << 12000, 1 >> }

LvBlockSize == par_block_size(lv_count, Len(lv_workers))
LvBlockCount == BlockCount(lv_count, LvBlockSize)

\* `next.fetch_add(1, ..)`: the value stored
fetch_add_stale(v, d) == v
fetch_add(v, d) == v + d

\* `if cancel.load(..) { break; }`
BreaksNever(flag) == FALSE
Breaks(flag) == flag

\* the error a worker returns
IoErr(w) == << "io error of worker 1", "io error of worker 2", "io error of worker 3",
               "io error of worker 4" >>[w]

LvEnded == {"exit", "failed", "panicked"}

InitLevel ==
    /\ \E x \in LevelSettings :
          /\ lv_count = x[1]
          /\ lv_workers = [w \in 1..x[2] |-> [pc |-> "idle", i |-> 0, saw |-> FALSE]]
    /\ lv_pc = [step |-> "spawn", h |-> 1]
    /\ lv_next = 0
    /\ lv_cancel = FALSE
    /\ lv_log = {}
    /\ first_err = "none"
    /\ BtIdle
    /\ RfIdle
    /\ SearchIdle
    /\ RunIdle
    /\ SolverIdle
    /\ MergeIdle
    /\ ProbeIdle

LevelFrame == UNCHANGED <<btVars, rfVars, searchVars, runVars, solver, mgVars, lv_count, probe>>

LvGo(w, pc) == [lv_workers EXCEPT ![w].pc = pc]
LvAt(w, pc) == w \in DOMAIN lv_workers /\ lv_workers[w].pc = pc

\* `thread::spawn` of the next worker; after the last one the joins begin
LvSpawn ==
    /\ lv_pc.step = "spawn"
    /\ lv_workers' = LvGo(lv_pc.h, "check")
    /\ lv_pc' = IF lv_pc.h = Len(lv_workers) THEN [step |-> "join", h |-> 1]
                ELSE [step |-> "spawn", h |-> lv_pc.h + 1]
    /\ UNCHANGED <<lv_next, lv_cancel, lv_log, first_err>>
    /\ LevelFrame

\* `if cancel.load(Ordering::Relaxed) { break; }`
LvCheck(w) ==
    /\ LvAt(w, "check")
    /\ lv_workers' = [lv_workers EXCEPT ![w].saw = lv_cancel,
                                        ![w].pc = IF Breaks(lv_cancel) THEN "exit" ELSE "fetch"]
    /\ UNCHANGED <<lv_pc, lv_next, lv_cancel, lv_log, first_err>>
    /\ LevelFrame

\* `let i = next.fetch_add(1, ..); if i >= block_count { break; }`
LvFetch(w) ==
    /\ LvAt(w, "fetch")
    /\ lv_next' = fetch_add(lv_next, 1)
    /\ lv_workers' = [lv_workers EXCEPT ![w].i = lv_next,
                                        ![w].pc = IF lv_next >= LvBlockCount THEN "exit" ELSE "block"]
    /\ UNCHANGED <<lv_pc, lv_cancel, lv_log, first_err>>
    /\ LevelFrame

\* the calls of process_bfs_block made so far for block i
CallsOf(i) == { e \in lv_log : e.i = i }

\* process_bfs_block(num_disc, &tdir, block_size, i)
LvBlock(w, outcome) ==
    /\ LvAt(w, "block")
    /\ lv_log' = lv_log \cup { [w |-> w, i |-> lv_workers[w].i, outcome |-> outcome,
                                saw |-> lv_workers[w].saw,
                                nth |-> Cardinality(CallsOf(lv_workers[w].i)) + 1] }
    /\ lv_workers' = LvGo(w, CASE outcome = "ok" -> "check"
                               [] outcome = "err" -> "store"
                               [] OTHER -> "panicked")
    /\ UNCHANGED <<lv_pc, lv_next, lv_cancel, first_err>>
    /\ LevelFrame

\* `cancel.store(true, ..); return Err(e);`
LvStore(w) ==
    /\ LvAt(w, "store")
    /\ lv_cancel' = TRUE
    /\ lv_workers' = LvGo(w, "failed")
    /\ UNCHANGED <<lv_pc, lv_next, lv_log, first_err>>
    /\ LevelFrame

\* what `h.join()` adds to first_err
Joined(err, w, pc) ==
    IF err # "none" THEN err
    ELSE IF pc = "failed" THEN IoErr(w)
    ELSE IF pc = "panicked" THEN "worker thread panicked"
    ELSE "none"

\* `for h in handles { match h.join() ..`: waits for the thread to end
LvJoin ==
    /\ lv_pc.step = "join"
    /\ lv_workers[lv_pc.h].pc \in LvEnded
    /\ first_err' = Joined(first_err, lv_pc.h, lv_workers[lv_pc.h].pc)
    /\ lv_pc' = IF lv_pc.h = Len(lv_workers) THEN [step |-> "joined", h |-> 0]
                ELSE [step |-> "join", h |-> lv_pc.h + 1]
    /\ UNCHANGED <<lv_workers, lv_next, lv_cancel, lv_log>>
    /\ LevelFrame

\* `if let Some(e) = first_err { return Err(e); }`
LvReturnErr ==
    /\ lv_pc.step = "joined"
    /\ first_err # "none"
    /\ lv_pc' = [step |-> "error", h |-> 0]
    /\ UNCHANGED <<lv_workers, lv_next, lv_cancel, lv_log, first_err>>
    /\ LevelFrame

\* the call of merge_files
LvMerge ==
    /\ lv_pc.step = "joined"
    /\ first_err = "none"
    /\ lv_pc' = [step |-> "merge", h |-> 0]
    /\ UNCHANGED <<lv_workers, lv_next, lv_cancel, lv_log, first_err>>
    /\ LevelFrame

\* merge_files returns: the count, or the error of a block file that is missing
LvMerged(res) ==
    /\ lv_pc.step = "merge"
    /\ lv_pc' = [step |-> res, h |-> 0]
    /\ UNCHANGED <<lv_workers, lv_next, lv_cancel, lv_log, first_err>>
    /\ LevelFrame

NextLevel ==
    \/ LvSpawn
    \/ \E w \in 1..MaxThreads : LvCheck(w)
    \/ \E w \in 1..MaxThreads : LvFetch(w)
    \/ \E w \in 1..MaxThreads, outcome \in {"ok", "err", "panic"} : LvBlock(w, outcome)
    \/ \E w \in 1..MaxThreads : LvStore(w)
    \/ LvJoin
    \/ LvReturnErr
    \/ LvMerge
    \/ \E res \in {"done", "merge_error"} : LvMerged(res)

SpecLevel == InitLevel /\ [][NextLevel]_vars

\* ------------------------------------------------------------------------
\* The rules of the game, for the claims about reachable positions
\* ------------------------------------------------------------------------
MaxDiscs == 4 + MaxTargetExtra
MoveAt(b, idx, flipped) == Board(Xor(b.opponent, flipped), Xor(b.player, flipped \cup {idx}))

\* the positions one legal move, or one legal pass, after b
GameNext(b) ==
    IF get_moves(b.player, b.opponent) # {}
    THEN { MoveAt(b, idx, flip(idx, b.player, b.opponent)) : idx \in get_moves(b.player, b.opponent) }
    ELSE IF get_moves(b.opponent, b.player) # {} THEN {Board(b.opponent, b.player)}
    ELSE {}

NewPositions(seen, frontier) ==
    { b \in UNION { GameNext(x) : x \in frontier } : popcount(b) <= MaxDiscs } \ seen

RECURSIVE GameClosure(_, _)
GameGrow(seen, new) == GameClosure(seen \cup new, new)
GameClosure(seen, frontier) ==
    IF frontier = {} THEN seen ELSE GameGrow(seen, NewPositions(seen, frontier))

\* every position of at most MaxDiscs discs that play from the opening reaches
Reachable == GameClosure({initial}, {initial})
\* the same up to the eight symmetries of the board
ReachableUnique == { unique(b) : b \in Reachable }

\* ------------------------------------------------------------------------
\* search/leaf_cache.rs, search.rs 325-378 and 646-658: the forward build for
\* a threshold D, then the look-up of a board of D discs in its leaf set
\* ------------------------------------------------------------------------
FwdDiscSettings == 4..MaxDiscs

\* the boards looked up: the positions of play, and every valid board with
\* stones on the three squares north of the centre
FwdProbes == Reachable \cup Targets

InitFwd ==
    /\ run_pc = "build"
    /\ runs = << >>
    /\ input = << >>
    /\ boards = << >>
    /\ ng = << >>
    /\ ok = << >>
    /\ fwd_calls = {}
    /\ strategy = 0
    /\ target = NoBoard
    /\ discs \in FwdDiscSettings
    /\ node_limit = 0
    /\ table_limit = 0
    /\ leafnode = {}
    /\ OutInit
    /\ DfsIdle
    /\ ParIdle
    /\ GbIdle
    /\ BfsIdle
    /\ BtIdle
    /\ RfIdle
    /\ SolverIdle
    /\ MergeIdle
    /\ LevelIdle
    /\ ProbeIdle

FwdFrame ==
    UNCHANGED <<btVars, rfVars, dfsVars, parVars, gbVars, bfsVars, solver, mgVars, lvVars, probe,
                strategy, discs, node_limit, table_limit, retval, node_count, cap_seen,
                leaf_hit, runs, input, boards, ng, ok, fwd_calls>>

\* LeafCache::new(discs)
FwdBuild ==
    /\ run_pc = "build"
    /\ leafnode' = LeafCache(discs)
    /\ run_pc' = "built"
    /\ UNCHANGED <<target, result>>
    /\ FwdFrame

\* `leafnode.contains(&uni)` for a board of D discs
FwdLookup ==
    /\ run_pc = "built"
    /\ \E b \in FwdProbes :
          /\ popcount(b) = discs
          /\ target' = b
          /\ result' = IF unique(b) \in leafnode THEN "Found" ELSE "NotFound"
    /\ run_pc' = "looked"
    /\ UNCHANGED leafnode
    /\ FwdFrame

NextFwd == FwdBuild \/ FwdLookup

SpecFwd == InitFwd /\ [][NextFwd]_vars

\* ------------------------------------------------------------------------
\* othello.rs, prunings/ : a game played forward from the opening, and the
\* pruning filters of the searches applied to the position it has reached
\* (search.rs 689-694, bfs_search.rs 80-89)
\* ------------------------------------------------------------------------
MaxPlayDiscs == 8

ProbeFrame == UNCHANGED <<btVars, rfVars, searchVars, runVars, solver, mgVars, lvVars>>

InitPlay ==
    /\ probe = [pc |-> "position", board |-> initial]
    /\ BtIdle
    /\ RfIdle
    /\ SearchIdle
    /\ RunIdle
    /\ SolverIdle
    /\ MergeIdle
    /\ LevelIdle

\* the mover plays a legal move, or passes when only the other side can move
PlayNext ==
    /\ probe.pc \in {"position", "filtered"}
    /\ \E b \in GameNext(probe.board) :
          /\ popcount(b) <= MaxPlayDiscs
          /\ probe' = [pc |-> "position", board |-> b]
    /\ ProbeFrame

\* the filters, each on the arguments the searches give it
PlayFilters ==
    /\ probe.pc = "position"
    /\ LET b == probe.board
           occupied == b.player \cup b.opponent
       IN  probe' = [pc |-> "filtered", board |-> b,
                     occupancy |-> check_occupancy(occupied),
                     connected |-> is_connected(occupied),
                     seg3 |-> check_seg3(occupied),
                     seg3_more |-> seg3_more_outcome(b.player, b.opponent)]
    /\ ProbeFrame

NextPlay == PlayNext \/ PlayFilters

SpecPlay == InitPlay /\ [][NextPlay]_vars

\* ------------------------------------------------------------------------
\* othello.rs 99-136 : Board::unique on a position and on its image under a
\* symmetry of the board
\* ------------------------------------------------------------------------
MaxSymExtra == 2

\* the quadrant of a1 without its centre square
SymRegion == { (y * 8) + x : x \in 0..3, y \in 0..3 } \ CENTER_MASK

\* the centre filled as in the opening, or with one stone of the mover
SymCentres == { initial, Board({27}, CENTER_MASK \ {27}) }

\* valid boards with at most MaxSymExtra stones, of either colour, in the
\* quadrant
SymBoards ==
    UNION { { Board(c.player \cup P, c.opponent \cup (E \ P)) : P \in SUBSET E, c \in SymCentres } :
            E \in { X \in SUBSET SymRegion : Cardinality(X) <= MaxSymExtra } }

\* the eight symmetries of the square board, on the coordinates of a square:
\* k = 0..3 turns the board by k quarter turns, k = 4..7 reflects it first
Reflect(sq) == ((sq \div 8) * 8) + (7 - (sq % 8))
QuarterTurn(sq) == ((sq % 8) * 8) + (7 - (sq \div 8))
RECURSIVE Turns(_, _)
Turns(sq, n) == IF n = 0 THEN sq ELSE Turns(QuarterTurn(sq), n - 1)
Sigma(k, sq) == IF k >= 4 THEN Turns(Reflect(sq), k - 4) ELSE Turns(sq, k)
SigmaBoard(k, b) == Board({ Sigma(k, i) : i \in b.player }, { Sigma(k, i) : i \in b.opponent })

InitSym ==
    /\ \E b \in SymBoards : probe = [pc |-> "board", board |-> b]
    /\ BtIdle
    /\ RfIdle
    /\ SearchIdle
    /\ RunIdle
    /\ SolverIdle
    /\ MergeIdle
    /\ LevelIdle

\* unique() of the board and of its image
SymUnique ==
    /\ probe.pc = "board"
    /\ \E k \in 0..7 :
          probe' = [pc |-> "canonical", board |-> probe.board, sigma |-> k,
                    image |-> SigmaBoard(k, probe.board),
                    answer |-> unique(probe.board),
                    image_answer |-> unique(SigmaBoard(k, probe.board))]
    /\ ProbeFrame

NextSym == SymUnique

SpecSym == InitSym /\ [][NextSym]_vars

\* ------------------------------------------------------------------------
\* search.rs 392-625 : one call of retrospective_flip on a square and an
\* opponent mask made of rays of stones from that square
\* ------------------------------------------------------------------------
MaxRay == 7

\* capacity of the result buffer, `&mut [u64; 10_000]`
RESULT_CAPACITY == 10000

\* `assert!(pos < 64)` and `assert!((1 << pos) & CENTER == 0)`
CallSquares == Squares \ CENTER_MASK

\* the squares at distance 1..r from pos in direction d of DXYS
RaySquares(pos, d, r) ==
    { (((pos \div 8) + (k * DXYS[d][2])) * 8) + ((pos % 8) + (k * DXYS[d][1])) :
        k \in { j \in 1..r : /\ OnBoard((pos % 8) + (j * DXYS[d][1]), (pos \div 8) + (j * DXYS[d][2])) } }

\* pos and the stones on its four lines up to r, on its four diagonals up to s
RayMask(pos, r, s) ==
    {pos} \cup UNION { RaySquares(pos, d, IF d \in {1, 3, 5, 7} THEN r ELSE s) : d \in 1..8 }

InitRays ==
    /\ \E pos \in CallSquares, r \in 0..MaxRay, s \in 0..MaxRay :
          probe = [pc |-> "call", pos |-> pos, opponent |-> RayMask(pos, r, s)]
    /\ BtIdle
    /\ RfIdle
    /\ SearchIdle
    /\ RunIdle
    /\ SolverIdle
    /\ MergeIdle
    /\ LevelIdle

\* the call: the filled prefix of the buffer, its length is the value returned
RaysFlip ==
    /\ probe.pc = "call"
    /\ probe' = [pc |-> "returned", pos |-> probe.pos, opponent |-> probe.opponent,
                 result |-> retrospective_flip(probe.pos, {}, probe.opponent)]
    /\ ProbeFrame

NextRays == RaysFlip

SpecRays == InitRays /\ [][NextRays]_vars

\* ------------------------------------------------------------------------
\* lib/bfs_search.rs : the search of strategy 5 on targets that include a
\* position with a column of stones on the b file
\* ------------------------------------------------------------------------
\* a valid board of 13 discs: the mover holds d4 and e5, the other side the
\* rest of the centre, b1..b6, c3, c5 and e6
ColumnTarget == Board({27, 36}, {1, 9, 17, 25, 33, 41, 18, 34, 28, 35, 44})

ShapeTargets == Targets \cup {ColumnTarget}

InitShape ==
    /\ discs \in DiscSettings
    /\ leafnode = LeafCache(discs)
    /\ target \in ShapeTargets
    /\ strategy = 5
    /\ node_limit = 0
    /\ table_limit = 0
    /\ bfs_mode \in {"par", "seq"}
    /\ block_size \in IF bfs_mode = "par" THEN {0} ELSE BlockSizes
    /\ bfs_pc = "start"
    /\ files = << >>
    /\ bfs_level = 0
    /\ bfs_blocks = {}
    /\ OutInit
    /\ DfsIdle
    /\ ParIdle
    /\ GbIdle
    /\ BtIdle
    /\ RfIdle
    /\ AuxIdle

SpecShape == InitShape /\ [][NextBfs]_vars

\* ------------------------------------------------------------------------
\* search.rs 633-795, move_ordering.rs 62-229 : the searches of strategies 1
\* and 2 with a visited table scaled down so far that it forgets within a
\* search, under the fairness of a running program
\* ------------------------------------------------------------------------
MaxDepthTable == 1
MaxDepthCache == 2

InitDepth ==
    /\ discs \in DiscSettings
    /\ leafnode = LeafCache(discs)
    /\ target \in Targets
    /\ stack = << Frame(target, FALSE) >>
    /\ strategy \in {1, 2}
    /\ node_limit \in {MaxNodeLimit, DefaultNodeLimit}
    /\ table_limit = 0
    /\ \E t \in 0..MaxDepthTable, c \in 1..MaxDepthCache :
          retrospective_searched = BtableClear(BtableNew(WordOf(t), c))
    /\ passed_up = 0
    /\ OutInit
    /\ ParIdle
    /\ BtIdle
    /\ RfIdle
    /\ AuxIdle
    /\ GbIdle
    /\ BfsIdle

\* a step of NextDfs is possible exactly until the driver has its verdict
DfsReady == result = "none"
\* weak fairness of NextDfs, with its enabling condition written out: the
\* thread of the search runs on while it has a step to take
DfsFair == []<>(~DfsReady) \/ []<><<NextDfs>>_vars
SpecDepth == InitDepth /\ [][NextDfs]_vars /\ DfsFair

\* ------------------------------------------------------------------------
\* par_search1.rs 143-262 : strategy 4 under fair scheduling of its threads
\* ------------------------------------------------------------------------
\* the steps of worker w
GbStep(w) ==
    \/ GbLoop(w) \/ GbLimit(w) \/ GbCapStore(w) \/ GbFront(w)
    \/ GbEmpty1(w) \/ GbEmpty2(w) \/ GbEmpty3(w) \/ GbNfCas(w) \/ GbNfStore(w)
    \/ GbRemove(w) \/ GbInc(w) \/ GbFoundCas(w) \/ GbSucc(w) \/ GbContains(w)
    \/ GbInsert(w) \/ GbCount(w) \/ GbPush(w) \/ GbDec(w)
\* worker w has a step to take: it has not left its loop
GbReady(w) == strategy = 4 /\ result = "none" /\ workers[w].pc # "exit"
\* the guard of GbJoin
GbJoinReady ==
    strategy = 4 /\ result = "none" /\ \A w \in DOMAIN workers : workers[w].pc = "exit"
\* weak fairness of every worker thread and of the thread that joins them,
\* with the enabling conditions written out
GbFair ==
    /\ \A w \in 1..NumWorkers : []<>(~GbReady(w)) \/ []<><<GbStep(w)>>_vars
    /\ []<>(~GbJoinReady) \/ []<><<GbJoin>>_vars
SpecGbLive == InitGbfs /\ [][NextGbfs]_vars /\ GbFair

\* ------------------------------------------------------------------------
\* Properties
\* ------------------------------------------------------------------------
RECURSIVE WordValue(_)
WordValue(W) == IF W = {} THEN 0 ELSE (2 ^ MaxOf(W)) + WordValue(W \ {MaxOf(W)})

InTable(bt, k) == \E n \in 1..Len(bt.table) : bt.table[n] = k

\* C3: for every mask F = R[i], i >= 1, of retrospective_flip(q, s.player,
\* s.opponent): in the predecessor built from F the square q is empty, the
\* forward flip of the mover playing q is exactly F, and the move gives s.
C3_PredecessorReplays ==
    rf_pc = "played" =>
        /\ rf_q \notin (rf_pred.player \cup rf_pred.opponent)
        /\ rf_flipped = rf_result[rf_i + 1]
        /\ rf_next = rf_board

\* C7: insert(k) returns false exactly when k is held in the cache or in the
\* sorted table; while nothing was forgotten since the last clear it returns
\* false iff k was inserted before; after clear every key inserts as new.
C7_InsertReportsMembership ==
    /\ bt_last.op = "insert" =>
         LET held == bt_last.key \in bt_last.pre.cache \/ InTable(bt_last.pre, bt_last.key)
         IN  /\ bt_last.ret = ~held
             /\ ~bt_last.pre_forgot => (~bt_last.ret <=> bt_last.key \in bt_last.pre_inserted)
    /\ bt_last.op = "clear" => \A k \in Keys : BtableInsert(btable, k).ret

\* a key found in the sorted table, after a merge and with nothing forgotten
C7_Witness ==
    /\ bt_last.op = "insert"
    /\ ~bt_last.ret
    /\ ~bt_last.pre_forgot
    /\ InTable(bt_last.pre, bt_last.key)
    /\ bt_last.key \notin bt_last.pre.cache

\* C8: an insert that brings the cache to its limit C while table length
\* plus cache length exceeds the capacity T empties the cache, leaves the
\* sorted table unchanged and returns true.
C8_FullTableDropsCache ==
    (/\ bt_last.op = "insert"
     /\ bt_last.key \notin bt_last.pre.cache
     /\ ~InTable(bt_last.pre, bt_last.key)
     /\ Cardinality(bt_last.pre.cache) + 1 >= bt_last.pre.cache_size
     /\ Len(bt_last.pre.table) + Cardinality(bt_last.pre.cache) + 1
          > WordValue(bt_last.pre.capacity))
    => /\ btable.cache = {}
       /\ btable.table = bt_last.pre.table
       /\ bt_last.ret

\* the dropped cache held several keys and the table was not empty
C8_Witness ==
    /\ bt_last.op = "insert"
    /\ bt_last.ret
    /\ Cardinality(bt_last.pre.cache) + 1 >= bt_last.pre.cache_size
    /\ Len(bt_last.pre.table) + Cardinality(bt_last.pre.cache) + 1
         > WordValue(bt_last.pre.capacity)
    /\ Cardinality(bt_last.pre.cache) >= 1
    /\ Len(bt_last.pre.table) >= 1
    /\ btable.cache = {}

\* C1: a search that returns Found was given a position that play from the
\* opening reaches (here even up to a symmetry of the board)
C1_FoundIsReachable == result = "Found" => unique(target) \in ReachableUnique

\* C2: a search that returns NotFound was given a position that play from the
\* opening does not reach
C2_NotFoundIsUnreachable == result = "NotFound" => unique(target) \notin ReachableUnique

\* C9: in strategies 1-3, once a call saw the node counter above the limit,
\* the sequential search carries Unknown up through every caller, and the
\* verdict is Unknown, or Found when a position of L_D was met
C9_UnknownPropagates ==
    (strategy \in 1..3 /\ cap_seen) =>
        /\ strategy \in {1, 2} => retval = "Unknown"
        /\ result # "none" => (result = "Unknown" \/ (result = "Found" /\ leaf_hit))

C9_Witness ==
    /\ strategy \in {1, 2}
    /\ cap_seen
    /\ passed_up >= 2
    /\ result = "Unknown"

C5_LeafMeansFound == (strategy = 3 /\ leaf_hit /\ result # "none") => result = "Found"

\* positions of a worker that removed a node and still processes it
Holding == {"inc", "found_cas", "succ", "contains", "insert", "count", "cap_store_in", "push"}
Declares(w) == workers[w].pc = "nf_cas" /\ workers'[w].pc = "nf_store"

\* C4: NotFound is declared only with the queue empty and no worker holding
\* a removed node that it has not finished
C4_NotFoundOnlyWhenIdle ==
    [][(\E w \in DOMAIN workers : Declares(w))
        => (pq = {} /\ \A v \in DOMAIN workers : workers[v].pc \notin Holding)]_vars

\* C6: a level in which a processed block found no predecessor does not end
\* in an error
C6_EmptyLevelCompletes ==
    ~(/\ strategy = 5
      /\ result = "IoError"
      /\ \E i \in bfs_blocks : FileB(bfs_level, i) \notin DOMAIN files)

\* the calls of one activation that go back over a pass
PassCalls(children) == { k \in DOMAIN children : children[k].from_pass }
\* the predecessors by a move of a node of strategy 4, as pairs
MovePairs(x) ==
    { <<p.player, p.opponent>> : p \in Range(PredsOf(BoardOf(x), x[2] \ CENTER_MASK)) }
\* an entry of `succs` that is no predecessor by a move is the pass twin of
\* the entry before it, which is one
TwinsFollowMoves(succs, moves) ==
    \A j \in DOMAIN succs :
        succs[j] \notin moves =>
            /\ j > 1
            /\ succs[j - 1] \in moves
            /\ succs[j] = <<succs[j - 1][2], succs[j - 1][1]>>

VerdictsOf(b) == { ok[i].result : i \in { j \in DOMAIN ok : ok[j].board = b /\ ~ok[j].cap } }

\* C12: the programs that searched the same board without reaching a cap
\* wrote the same verdict for it, and none of them ended without a verdict
C12_SameVerdict ==
    /\ \A i \in DOMAIN ok : Cardinality(VerdictsOf(ok[i].board)) <= 1
    /\ (run_pc = "aborted" /\ result = "IoError") => cap_seen

\* the boards of the input that the running program has gone past
Passed == SubSeq(input, 1, Len(input) - Len(boards))
IsInvalid(b) == validate_board(b) # "Ok"

\* C13: a board that validate_board rejects is written to the NG output, is
\* never handed to make_fwd_table or to a search, and does not end the run
C13_InvalidToNg ==
    /\ \A x \in fwd_calls : ~IsInvalid(x)
    /\ strategy # 0 => ~IsInvalid(target)
    /\ (run_pc = "aborted" /\ boards # << >>) => ~IsInvalid(Head(boards))
    /\ Len(runs) = 1 => ng = SelectSeq(Passed, IsInvalid)

SolverFailed ==
    /\ solver.pc \in {"filtered", "expanded", "pruned"}
    /\ solver.status \in (IF solver.kind = "lp" THEN LpFailed ELSE SatFailed)

\* C14: when the LP or SAT solver fails or leaves the question open, the
\* filter answers true and the position is expanded, not pruned
C14_FailureNeverPrunes == SolverFailed => (solver.pass /\ solver.pc # "pruned")

\* a call of strategies 1-3 on a board of at most D discs has not gone past
\* its leaf test
DfsLeafStops ==
    \A i \in DOMAIN stack : popcount(stack[i].board) <= discs => stack[i].pc = "enter"
ParLeafStops ==
    \A a \in DOMAIN par_acts :
        popcount(par_acts[a].board) <= discs => par_acts[a].pc \in {"enter", "leaf_cas"}

\* a worker of strategy 4 that holds a node of at most D discs is not in
\* prev_states or in the loop over its predecessors
GbLeafStops ==
    \A w \in DOMAIN workers :
        (workers[w].node # << >> /\ count_ones(workers[w].node[1] \cup workers[w].node[2]) <= discs)
            => workers[w].pc \notin {"succ", "contains", "insert", "count", "push"}

\* strategy 5 expands no level below D + 1
BfsLeafStops == (strategy = 5 /\ bfs_pc = "blocks") => bfs_level >= discs

\* the verdict on a target of at most D discs is its membership in the leaf set
LeafVerdict ==
    (strategy \in 1..5 /\ popcount(target) <= discs /\ result \in {"Found", "NotFound", "Unknown"})
        => (result = "Found") = (unique(target) \in leafnode)

\* C15: a node of at most D discs is answered by the look-up of its
\* canonical form in the leaf set and is not expanded
C15_LeafNotExpanded ==
    DfsLeafStops /\ ParLeafStops /\ GbLeafStops /\ BfsLeafStops /\ LeafVerdict

\* the search on the opening position has enumerated no predecessor
OpeningNotExpanded ==
    /\ node_count = 0
    /\ \A i \in DOMAIN stack : stack[i].pc = "enter"
    /\ \A a \in DOMAIN par_acts : par_acts[a].pc \in {"enter", "leaf_cas"}
    /\ \A w \in DOMAIN workers : workers[w].pc \notin {"succ", "contains", "insert", "count", "push"}
    /\ bfs_pc # "blocks"

\* C16: with the opening position as the target, every strategy ends with
\* Found for every D >= 4 and enumerates no predecessor
C16_OpeningFound ==
    (strategy \in 1..5 /\ target = initial) =>
        /\ OpeningNotExpanded
        /\ result # "none" => result = "Found"

\* a valid board with a stone that no chain of neighbours joins to the centre
Disconnected(b) ==
    validate_board(b) = "Ok" /\ ~is_connected(b.player \cup b.opponent)

\* no call is past the shape filters, no worker has called check_lp or
\* prev_states, no block has been handed to process_board
NothingEnumerated ==
    /\ \A i \in DOMAIN stack : stack[i].pc \in {"enter", "filtered"}
    /\ \A a \in DOMAIN par_acts :
          par_acts[a].pc \in {"enter", "leaf_cas", "table", "insert", "contains", "count"}
    /\ \A w \in DOMAIN workers : workers[w].pc \notin {"succ", "contains", "insert", "count", "push"}
    /\ bfs_blocks = {}

\* C17: a valid target with a stone that is not 8-connected to the centre is
\* answered NotFound by every strategy, before retrospective_flip enumerates
\* a predecessor and without a call of the LP filter
C17_DisconnectedRejected ==
    (strategy \in 1..5 /\ Disconnected(target)) =>
        /\ NothingEnumerated
        /\ result # "none" => result = "NotFound"

StrictlyIncreasing(recs) == \A i \in 1..(Len(recs) - 1) : PairLt(recs[i], recs[i + 1])
InputRecords == UNION { Range(mg_files[mg_inputs[j]]) : j \in DOMAIN mg_inputs }

\* the step in which merge_sorted_bins writes its output
MergeWrites == mg_pc.step = "start" /\ mg_pc'.step = "remove"
\* a step in which an input file disappears
InputRemoved == \E j \in DOMAIN mg_inputs :
                    mg_inputs[j] \in DOMAIN mg_files /\ mg_inputs[j] \notin DOMAIN mg_files'

MergeStepOk ==
    /\ MergeWrites => /\ StrictlyIncreasing(mg_files'[MgOut])
                      /\ Range(mg_files'[MgOut]) = InputRecords
    /\ InputRemoved => MgOut \in DOMAIN mg_files

\* C18: the output of merge_sorted_bins on sorted input files is strictly
\* increasing and holds exactly the records of the inputs, each once; an
\* input file is removed only when the output has been written
C18_MergeSortedUnion == [][MergeStepOk]_vars

\* two inputs share a record, the output is written and has two records or more
C18_Witness ==
    /\ mg_pc.step = "remove" /\ mg_pc.i = 1
    /\ \E j, k \in DOMAIN mg_inputs :
          j # k /\ Range(mg_files[mg_inputs[j]]) \cap Range(mg_files[mg_inputs[k]]) # {}
    /\ Len(mg_files[MgOut]) >= 2

\* the blocks process_bfs_block was called for, and the records block i covers
LoggedBlocks == { e.i : e \in lv_log }
BlockLo(i) == LvBlockSize * i
BlockHi(i) == BlockLo(i) + Min2(LvBlockSize, lv_count - BlockLo(i)) - 1

\* the blocks 0 .. n-1 lie one after the other and end with the last record
Tiles(n) ==
    /\ n > 0 => (BlockLo(0) = 0 /\ BlockHi(n - 1) = lv_count - 1)
    /\ \A i \in 0..(n - 1) : BlockLo(i) <= BlockHi(i)
    /\ \A i \in 0..(n - 2) : BlockHi(i) + 1 = BlockLo(i + 1)

NoBlockError == \A e \in lv_log : e.outcome = "ok"
AllEnded == \A w \in DOMAIN lv_workers : lv_workers[w].pc \in LvEnded

\* C19: in a level step without error, no block index is handed out twice
\* and none at or above block_count is processed; when the workers have
\* ended every index below block_count was processed once, and the blocks
\* cover every record of r_{k+1}.bin once
C19_BlocksOnce ==
    NoBlockError =>
        /\ \A i \in LoggedBlocks : i < LvBlockCount /\ Cardinality(CallsOf(i)) = 1
        /\ \A w \in DOMAIN lv_workers : lv_workers[w].pc = "block" => CallsOf(lv_workers[w].i) = {}
        /\ \A v, w \in DOMAIN lv_workers :
              (v # w /\ lv_workers[v].pc = "block" /\ lv_workers[w].pc = "block")
                  => lv_workers[v].i # lv_workers[w].i
        /\ AllEnded => (LoggedBlocks = 0..(LvBlockCount - 1) /\ Tiles(LvBlockCount))

\* several blocks, taken by different workers, all done without error
C19_Witness ==
    /\ lv_workers # << >> /\ AllEnded /\ NoBlockError
    /\ LvBlockCount >= 3 /\ Cardinality(lv_log) = LvBlockCount
    /\ \E e, f \in lv_log : e.w # f.w

Failed == { w \in DOMAIN lv_workers : lv_workers[w].pc \in {"failed", "panicked"} }
FirstFailed == CHOOSE w \in Failed : \A v \in Failed : w <= v
Merging == lv_pc.step \in {"merge", "done", "merge_error"}

\* C20: a worker that has read the cancel flag as set starts no block; the
\* merge begins only when every worker has ended; with a failed worker the
\* merge is not run and the error of the first failed handle is returned
C20_CancelAndJoin ==
    /\ \A w \in DOMAIN lv_workers : lv_workers[w].saw => lv_workers[w].pc = "exit"
    /\ \A e \in lv_log : ~e.saw
    /\ Merging => (AllEnded /\ Failed = {} /\ first_err = "none")
    /\ lv_pc.step = "joined" => AllEnded
    /\ lv_pc.step = "error" =>
          /\ AllEnded /\ Failed # {}
          /\ first_err = Joined("none", FirstFailed, lv_workers[FirstFailed].pc)

\* a worker failed, another one read the flag and left blocks untaken, and
\* the error was returned
C20_Witness ==
    /\ lv_pc.step = "error"
    /\ \E w \in DOMAIN lv_workers : lv_workers[w].pc = "failed"
    /\ \E w \in DOMAIN lv_workers : lv_workers[w].saw
    /\ LoggedBlocks # 0..(LvBlockCount - 1)

\* a record is the canonical form of a position of k discs
CanonicalOf(rec, k) ==
    /\ unique(BoardOf(rec)) = rec
    /\ count_ones(rec[1] \cup rec[2]) = k

LevelFileOk(name) ==
    /\ \A j \in DOMAIN files[name] : CanonicalOf(files[name][j], name[2])
    /\ StrictlyIncreasing(files[name])

\* C21: every r_{k}.bin of strategy 5, the one written for the target
\* included, holds canonical positions of k discs in strictly increasing
\* order
C21_LevelFilesCanonical ==
    \A name \in DOMAIN files : name[1] = "r" => LevelFileOk(name)

\* the lines a program wrote to the OK, NG and UNKNOWN files
OutputOf(prog) ==
    { [board |-> ok[i].board, result |-> ok[i].result] :
      i \in { j \in DOMAIN ok : ok[j].strategy = prog } }

\* the resumed search has returned its value
ResumeReturned == run_pc = "search" /\ runs = << 6 >> /\ result # "none"

\* C22: strategy 5 resumed on r_{n}.bin with the canonical form of a target
\* gives the verdict of the fresh run and writes the same output lines
C22_ResumeSameAsFresh ==
    /\ ResumeReturned => [board |-> target, result |-> result] \in OutputOf(5)
    /\ run_pc = "resumed" => OutputOf(5) = OutputOf(6)

\* the visit of activation a is the step taken
VisitStep(a) ==
    /\ a \in DOMAIN par_acts /\ par_acts[a].pc \in {"insert", "contains"}
    /\ a \notin DOMAIN par_acts' \/ par_acts'[a].pc \notin {"insert", "contains"}

\* a visit whose ticket is at or above the limit leaves the set as it is
TableStepOk ==
    strategy = 3 =>
        /\ Cardinality(visited') <= table_limit
        /\ \A a \in DOMAIN par_acts :
              (VisitStep(a) /\ par_acts[a].pc = "contains") => visited' = visited
        /\ (table_count >= table_limit /\ table_count' # table_count)
              => \A a \in DOMAIN par_acts' : par_acts'[a].pc # "insert" \/
                                             (a \in DOMAIN par_acts /\ par_acts[a].pc = "insert")

\* C23: in strategy 3 the visited set never holds more than T_max entries,
\* and a visit that comes when the table count has reached T_max only tests
\* membership
C23_TableBounded == [][TableStepOk]_vars

\* the limit was reached and a new position went through the membership test
C23_Witness ==
    /\ strategy = 3 /\ table_count > table_limit /\ visited # {}
    /\ \E a \in DOMAIN par_acts : par_acts[a].pc = "count" /\ par_acts[a].uni \notin visited

\* activation a takes the step of its entry
EnterStep(a) ==
    /\ a \in DOMAIN par_acts /\ par_acts[a].pc = "enter"
    /\ a \notin DOMAIN par_acts' \/ par_acts'[a].pc # "enter"

\* the value v left activation a: at the root it is the value of the search,
\* in a scope the closure is at its branch for v, in a serial loop the
\* caller is not at the load that follows NotFound
Returned(a, v) ==
    IF a = << >> THEN retval' = v
    ELSE IF par_acts[Parent(a)].split
    THEN a \in DOMAIN par_acts' /\
         par_acts'[a].pc = (IF v = "Found" THEN "store_found" ELSE "load_best")
    ELSE /\ a \notin DOMAIN par_acts'
         /\ Parent(a) \in DOMAIN par_acts' => par_acts'[Parent(a)].pc # "serial_check"

StopStepOk ==
    \A a \in DOMAIN par_acts :
        (strategy = 3 /\ stop # 0 /\ EnterStep(a)) =>
            /\ Returned(a, IF stop = 1 THEN "Found" ELSE "Unknown")
            /\ visited' = visited /\ node_count' = node_count /\ table_count' = table_count
            /\ \A q \in DOMAIN par_acts' : q \in DOMAIN par_acts \/ Parent(q) # a

\* C24: after the stop flag is set, an activation of strategy 3 that enters
\* returns at once with the flag's verdict and touches neither the visited
\* set nor the counters nor starts a child; the search then ends
C24_StopIsPrompt ==
    /\ [][StopStepOk]_vars
    /\ (strategy = 3 /\ stop # 0) ~> (result # "none")

\* an Unknown stop was observed at the entry of a position that was never
\* looked up: its closure in a scope handles Unknown
C24_Witness ==
    /\ strategy = 3 /\ stop = 2 /\ table_limit = DefaultTableLimit
    /\ \E a \in DOMAIN par_acts :
          /\ par_acts[a].pc = "load_best"
          /\ popcount(par_acts[a].board) > discs
          /\ par_acts[a].uni \notin visited

\* a search is entered: the step of RunSearch or RunResume
SearchEntered == run_pc # "search" /\ run_pc' = "search"

\* nothing of an earlier search is left: the node counter is zero and the
\* visited set holds nothing (strategy 4 has put the root into it)
FreshStart ==
    /\ node_count = 0
    /\ strategy \in {1, 2} => BtableLen(retrospective_searched) = 0
    /\ strategy = 3 => visited = {} /\ table_count = 0 /\ stop = 0
    /\ strategy = 4 => visited = pq /\ visited_count = Cardinality(pq) /\ inflight = 0 /\ ~done
    /\ result = "none" /\ retval = "none"

\* the lines a program wrote for a board have one verdict
OneVerdict(s) ==
    \A i, j \in DOMAIN ok :
        (ok[i].strategy = s /\ ok[j].strategy = s /\ ok[i].board = ok[j].board) =>
            ok[i].result = ok[j].result

\* the step of a run keeps the boards apart
BoardStepOk ==
    /\ SearchEntered => FreshStart'
    /\ \A s \in {1, 2, 5} : OneVerdict(s)'

ValidMasks(s, q) ==
    { F \in SUBSET (s.opponent \ {q}) :
        LET pred == PrevBoard(s, q, F)
        IN  /\ F # {}
            /\ q \notin (pred.player \cup pred.opponent)
            /\ flip(q, pred.player, pred.opponent) = F
            /\ Board(Xor(pred.opponent, F), Xor(pred.player, F \cup {q})) = s }

\* the masks R[i], i >= 1, of the list in rf_result
Enumerated == { rf_result[i] : i \in 2..Len(rf_result) }

\* C26: the masks that retrospective_flip lists for s and q are exactly the
\* flip masks of the legal moves on q that lead to s
C26_ExactMasks ==
    rf_pc \in {"listed", "pred", "played"} => Enumerated = ValidMasks(rf_board, rf_q)

\* more tickets were taken than the table limit allows entries
TableCapExceeded == strategy = 3 /\ table_count > table_limit

\* C27: a search of strategy 3 in which the table cap was exceeded returns
\* Unknown at the root
C27_TableCapUnknown ==
    (TableCapExceeded /\ result \in {"Found", "NotFound", "Unknown"}) => result = "Unknown"

\* the child activations of a
ChildrenOf(a) == { q \in DOMAIN par_acts : Len(q) = Len(a) + 1 /\ Parent(q) = a }

\* activation a has made its choice: it is in the scope (the first child
\* runs on its thread, then the others are tasks of the pool) or in the
\* serial loop
Chosen(a) == par_acts[a].pc \in {"wait", "join", "serial_check"}
InScope(a) ==
    \/ par_acts[a].pc = "wait" /\ par_acts[a].idx = 1 /\ par_acts[a].split
       /\ ChildrenOf(a) = {Append(a, 1)}
    \/ par_acts[a].pc = "join" /\ par_acts[a].split
       /\ ChildrenOf(a) \subseteq { Append(a, k) : k \in 2..Len(par_acts[a].children) }
       /\ par_acts[a].pending = Cardinality(ChildrenOf(a))
InSerial(a) ==
    /\ ~par_acts[a].split
    /\ par_acts[a].pc = "wait" => ChildrenOf(a) = {Append(a, par_acts[a].idx)}
    /\ par_acts[a].pc = "serial_check" => ChildrenOf(a) = {}
    /\ par_acts[a].pc # "join"

\* C28: an activation of strategy 3 at depth d with n children runs them in
\* the scope, the first on its own thread and the others as tasks, exactly
\* when d <= PAR_MAX_DEPTH and n >= PAR_MIN_CHILDREN, and else one after
\* the other on its own thread
C28_SplitRule ==
    \A a \in DOMAIN par_acts :
        (strategy = 3 /\ Chosen(a)) =>
            IF Len(a) <= PAR_MAX_DEPTH /\ Len(par_acts[a].children) >= PAR_MIN_CHILDREN
            THEN InScope(a) ELSE InSerial(a)

\* the mover of p cannot move: p is left by a pass or the game is over
MoverStuck(p) == get_moves(p.player, p.opponent) = {}

\* the pass from p to s (p with the colours swapped) is a move of the game:
\* the mover of p has no legal move and the mover of s has one
LegalPass(s, p) ==
    /\ p = Board(s.opponent, s.player)
    /\ MoverStuck(p)
    /\ get_moves(s.player, s.opponent) # {}

\* C29: a call made over a pass edge, from s to p, stands for a legal pass
\* of the game (strategies 1 and 2: the stack; strategy 3: the activations)
C29_PassIsLegal ==
    /\ \A i \in DOMAIN stack :
          (i > 1 /\ stack[i].from_pass) => LegalPass(stack[i - 1].board, stack[i].board)
    /\ \A a \in DOMAIN par_acts :
          (a # << >> /\ par_acts[a].from_pass) =>
              LegalPass(par_acts[Parent(a)].board, par_acts[a].board)

\* the positions of d discs that play reaches and whose mover has a move
PlayableAt(d) ==
    { b \in Reachable : popcount(b) = d /\ get_moves(b.player, b.opponent) # {} }
\* their canonical forms, for each threshold
PlayableForms == [d \in FwdDiscSettings |-> { unique(b) : b \in PlayableAt(d) }]

ValidBoard(b) == board_check(<< b.player, b.opponent >>)

Occupied(b) == b.player \cup b.opponent

\* board_check raises no panic on any of the eight symmetries of b, nor on
\* the canonical form (board_symmetry, unique)
UniqueNoPanic(b) ==
    /\ \A i \in 0..7 : board_check(board_symmetry(b, i))
    /\ board_check(unique(b))

\* C31: a predecessor built from a valid position s through a square q and
\* a flip mask F has disjoint masks, the four centre squares occupied and
\* the occupied set of s without q, so its canonical form is computed
\* without a panic
C31_PredecessorValid ==
    (rf_pc \in {"pred", "played"} /\ ValidBoard(rf_board)) =>
        /\ rf_pred.player \cap rf_pred.opponent = {}
        /\ CENTER_MASK \subseteq Occupied(rf_pred)
        /\ Occupied(rf_pred) = Occupied(rf_board) \ {rf_q}
        /\ UniqueNoPanic(rf_pred)

\* a predecessor built from a mask of two stones
C31_Witness ==
    /\ rf_pc = "pred"
    /\ ValidBoard(rf_board)
    /\ Cardinality(rf_result[rf_i + 1]) >= 2
    /\ rf_pred.opponent # {}

\* C32: a position that legal play from the opening reaches is accepted by
\* every pruning filter: check_occupancy, is_connected and check_seg3 on the
\* occupied set, check_seg3_more on (player, opponent)
C32_FiltersAcceptPlay ==
    probe.pc = "filtered" =>
        /\ probe.occupancy
        /\ probe.connected
        /\ probe.seg3
        /\ probe.seg3_more = "true"

\* a position at the end of the games played, with a disc two squares away
\* from the centre block
C32_Witness ==
    /\ probe.pc = "filtered"
    /\ popcount(probe.board) = MaxPlayDiscs
    /\ \E i \in probe.board.player \cup probe.board.opponent : i % 8 \in {1, 6} \/ i \div 8 \in {1, 6}

\* C33: the canonical form of a valid position and of its image under each
\* of the eight symmetries of the board are the same pair
C33_CanonicalInvariant ==
    probe.pc = "canonical" =>
        /\ ValidBoard(probe.image)
        /\ probe.image_answer = probe.answer

\* a board that no symmetry but the identity maps to itself, under a
\* symmetry that moves it, with a canonical form that is neither of the two
C33_Witness ==
    /\ probe.pc = "canonical"
    /\ \A k \in 1..7 : SigmaBoard(k, probe.board) # probe.board
    /\ probe.image # probe.board
    /\ probe.answer \notin { << probe.board.player, probe.board.opponent >>,
                             << probe.image.player, probe.image.opponent >> }

\* the entries R[1], ..., R[n-1] of a returned list
Entries(R) == { R[i] : i \in 2..Len(R) }

\* C34: when retrospective_flip returns n > 0 for a non-centre square pos
\* holding an opponent stone, R[0] = 0 and R[1], ..., R[n-1] are pairwise
\* distinct, non-zero, subsets of opponent, and do not contain pos
C34_MaskListShape ==
    (probe.pc = "returned" /\ Len(probe.result) > 0) =>
        /\ probe.result[1] = {}
        /\ Cardinality(Entries(probe.result)) = Len(probe.result) - 1
        /\ \A F \in Entries(probe.result) :
              /\ F # {}
              /\ F \subseteq probe.opponent
              /\ probe.pos \notin F

\* a list built from the runs of three directions and more, with a mask
\* that joins stones of all of them
C34_Witness ==
    /\ probe.pc = "returned"
    /\ Len(probe.result) >= 27
    /\ \E F \in Entries(probe.result) :
          Cardinality({ d \in 1..8 : RaySquares(probe.pos, d, 7) \cap F # {} }) >= 3

\* l_d: the opponent stones in a row next to pos in direction d of DXYS
OpponentRun(pos, d, opponent) ==
    LineLen((pos % 8) + DXYS[d][1], (pos \div 8) + DXYS[d][2], DXYS[d][1], DXYS[d][2], opponent)

\* the product of the l_d that are at least 2
RECURSIVE RunProduct(_, _, _)
RunProduct(pos, opponent, d) ==
    IF d > 8 THEN 1
    ELSE (IF OpponentRun(pos, d, opponent) >= 2 THEN OpponentRun(pos, d, opponent) ELSE 1)
         * RunProduct(pos, opponent, d + 1)

\* C39: for a non-centre square pos and any opponent mask the number of
\* masks retrospective_flip writes is the product of the run lengths l_d >= 2
\* (nothing is written when there is no such run) and stays below the
\* capacity of the buffer, so every write is inside it
C39_BufferSuffices ==
    probe.pc = "returned" =>
        /\ Len(probe.result) < RESULT_CAPACITY
        /\ Len(probe.result) =
              IF \E d \in 1..8 : OpponentRun(probe.pos, d, probe.opponent) >= 2
              THEN RunProduct(probe.pos, probe.opponent, 1) ELSE 0

\* a call that fills more than half of the buffer: every line and diagonal
\* through pos is full of opponent stones
C39_Witness ==
    /\ probe.pc = "returned"
    /\ Len(probe.result) * 2 > RESULT_CAPACITY
    /\ probe.opponent = RayMask(probe.pos, 7, 7)

\* the keys a Btable holds
Held(bt) == bt.cache \cup { bt.table[n] : n \in DOMAIN bt.table }

\* the membership test of insert: the cache, then a binary search
Member(bt, k) == k \in bt.cache \/ binary_search(bt.table, k)

\* C36: whatever inserts and clears were made, the table is strictly
\* increasing, no key is in the cache and in the table, and the membership
\* test answers for every key whether the Btable holds it
C36_TableSortedExact ==
    /\ \A n \in 1..(Len(btable.table) - 1) : PairLt(btable.table[n], btable.table[n + 1])
    /\ \A n \in DOMAIN btable.table : btable.table[n] \notin btable.cache
    /\ \A k \in Keys : Member(btable, k) <=> k \in Held(btable)

\* an insert merged the cache into a table that held keys already, and a new
\* key went in front of them
C36_Witness ==
    /\ bt_last.op = "insert"
    /\ Len(bt_last.pre.table) >= 2
    /\ Len(btable.table) > Len(bt_last.pre.table)
    /\ btable.table[1] # bt_last.pre.table[1]
    /\ btable.table[Len(btable.table)] = bt_last.pre.table[Len(bt_last.pre.table)]

\* C35: no search reaches the panic of check_seg3_more: the filters called
\* before it leave only positions in which every disc outside the centre
\* has a way to be placed
C35_NoInconsistentPanic == result # "Panic"

\* 2 * (|s| - D) + 1
DepthBound == (2 * (popcount(target) - discs)) + 1

\* the recursion depth of strategies 1 and 2: the calls on the stack
Depth == Len(stack)

\* C37 as stated: the depth of the recursion never exceeds 2 * (|s| - D) + 1
C37_DepthAsStated == strategy \in {1, 2} => Depth <= DepthBound

\* C37: the search of strategies 1 and 2 ends, and its recursion is never
\* deeper than 2 * (|s| - D) + 1 calls, or than the one call of the root when
\* the target has fewer than D discs, whatever the visited table holds
C37_DepthBounded ==
    /\ [](strategy \in {1, 2} => Depth <= Max2(DepthBound, 1))
    /\ <>(result # "none")

\* the deepest recursion of a target above the threshold, over a pass, in a
\* search whose table has forgotten a position that is still on the stack
C37_Witness ==
    /\ popcount(target) > discs
    /\ Depth = DepthBound
    /\ \E i \in DOMAIN stack :
          stack[i].pc # "enter" /\ ~Member(retrospective_searched, stack[i].uni)

\* C40: in strategy 3 the stop flag changes only from 0 to 1 or from 0 to 2;
\* once it is not 0 no step of the search changes it
C40_StopSetOnce ==
    [][strategy = 3 => (stop' # stop => (stop = 0 /\ stop' \in {1, 2}))]_vars

\* the flag holds 1 (Found) while another activation, over the node limit, is
\* about to try compare_exchange(0, 2)
C40_Witness ==
    /\ strategy = 3
    /\ stop = 1
    /\ \E a \in DOMAIN par_acts : Running(a, "cap_cas")

\* worker w is in the part of its loop that polls the empty queue while the
\* in-flight counter is not zero
WaitsOnEmpty(w) ==
    /\ workers[w].pc \in {"loop", "limit", "front", "empty1"}
    /\ pq = {}
    /\ inflight # 0

\* C38: in strategy 4 under fair scheduling every search ends with all
\* workers out of their loop and one of Found, NotFound, Unknown returned;
\* found and notfound are never both recorded; a worker that polls the empty
\* queue with a non-zero in-flight counter leaves its loop
C38_FairSearchEnds ==
    /\ [](~(found /\ notfound))
    /\ <>(/\ result \in {"Found", "NotFound", "Unknown"}
          /\ \A w \in DOMAIN workers : workers[w].pc = "exit")
    /\ \A w \in 1..NumWorkers : WaitsOnEmpty(w) ~> (workers[w].pc = "exit")

\* a worker polls the empty queue while the other one is still expanding
\* its node
C38_Witness ==
    /\ strategy = 4
    /\ \E w \in DOMAIN workers : WaitsOnEmpty(w) /\ workers[w].pc = "empty1"
    /\ \E v \in DOMAIN workers : workers[v].pc = "succ"
    /\ ~done

====
